---- MODULE Spec2Model ----
(***************************************************************************)
(* Candidate scoring engine of datacenterhires                             *)
(* (src/src/lib/candidate-scorer.ts): scoreCandidate, rankCandidates and   *)
(* the helpers they call.                                                  *)
(*                                                                         *)
(* Representation                                                          *)
(*  - a JS string is a sequence of one-character strings;                  *)
(*  - a nullable value (T | null) is <<>> for null and <<v>> for v;        *)
(*  - a score is an integer number of quarter points (6.25 = 25 quarters): *)
(*    every value the scorer can produce is a multiple of 0.25, and the    *)
(*    IEEE-754 results of the source's expressions coincide with the exact *)
(*    ones on the modelled ranges (minExperience below 24);                *)
(*  - time is counted in hours.                                            *)
(***************************************************************************)
EXTENDS Integers, Sequences, FiniteSets, TLC

\* ------------------------------------------------------------------------
\* Nullable values
\* ------------------------------------------------------------------------
Null == <<>>
Some(v) == <<v>>

\* JS truthiness of a `number | null`: null and 0 are falsy.
TruthyNum(x) == x # Null /\ x[1] # 0

\* JS truthiness of a `string | null`: null and "" are falsy.
TruthyStr(x) == x # Null /\ x[1] # <<>>

\* ------------------------------------------------------------------------
\* Strings
\* ------------------------------------------------------------------------
UpperChars == <<"A","B","C","D","E","F","G","H","I","J","K","L","M",
                "N","O","P","Q","R","S","T","U","V","W","X","Y","Z">>
LowerChars == <<"a","b","c","d","e","f","g","h","i","j","k","l","m",
                "n","o","p","q","r","s","t","u","v","w","x","y","z">>
DigitChars == {"0","1","2","3","4","5","6","7","8","9"}

UpperSet == {UpperChars[i] : i \in 1..26}
LowerSet == {LowerChars[i] : i \in 1..26}
ToLowerMap == [c \in UpperSet |-> LowerChars[CHOOSE i \in 1..26 : UpperChars[i] = c]]
ToUpperMap == [c \in LowerSet |-> UpperChars[CHOOSE i \in 1..26 : LowerChars[i] = c]]

IsUpper(c) == c \in UpperSet
IsLower(c) == c \in LowerSet
IsDigit(c) == c \in DigitChars
\* \s of a JS regular expression, restricted to the characters in use
IsSpace(c) == c \in {" ", "\n"}
\* \w of a JS regular expression
IsWordChar(c) == IsUpper(c) \/ IsLower(c) \/ IsDigit(c) \/ c = "_"

LowerOf(c) == IF IsUpper(c) THEN ToLowerMap[c] ELSE c
UpperOf(c) == IF IsLower(c) THEN ToUpperMap[c] ELSE c

\* String.prototype.toLowerCase
toLowerCase(s) == [i \in 1..Len(s) |-> LowerOf(s[i])]
\* String.prototype.toUpperCase
toUpperCase(s) == [i \in 1..Len(s) |-> UpperOf(s[i])]

\* String.prototype.trim
RECURSIVE trimStart(_)
trimStart(s) == IF s # <<>> /\ IsSpace(Head(s)) THEN trimStart(Tail(s)) ELSE s
RECURSIVE trimEnd(_)
trimEnd(s) == IF s # <<>> /\ IsSpace(s[Len(s)])
              THEN trimEnd(SubSeq(s, 1, Len(s) - 1)) ELSE s
trim(s) == trimEnd(trimStart(s))

\* String.prototype.includes: the empty string is included in every string
includes(s, t) ==
    \E i \in 1..(Len(s) - Len(t) + 1) : SubSeq(s, i, i + Len(t) - 1) = t

\* s.replace(/\s/g, "")
RECURSIVE removeSpaces(_)
removeSpaces(s) ==
    IF s = <<>> THEN <<>>
    ELSE IF IsSpace(Head(s)) THEN removeSpaces(Tail(s))
    ELSE <<Head(s)>> \o removeSpaces(Tail(s))

\* s.replace(/\s+/g, " ")
RECURSIVE collapseSpaces(_)
collapseSpaces(s) ==
    IF s = <<>> THEN <<>>
    ELSE IF IsSpace(Head(s))
         THEN <<" ">> \o collapseSpaces(trimStart(Tail(s)))
         ELSE <<Head(s)>> \o collapseSpaces(Tail(s))

\* ------------------------------------------------------------------------
\* String matching utilities (candidate-scorer.ts)
\* ------------------------------------------------------------------------
\* the class [-–—]; the en dash and the em dash are outside the
\* alphabet of the modelled inputs
DashChars == {"-"}

\* s.replace(/[-–—]/g, " ")
dashesToSpaces(s) == [i \in 1..Len(s) |-> IF s[i] \in DashChars THEN " " ELSE s[i]]

\* s.replace(/[^a-z0-9\s+]/g, "")
RECURSIVE stripPunctuation(_)
stripPunctuation(s) ==
    IF s = <<>> THEN <<>>
    ELSE IF IsLower(Head(s)) \/ IsDigit(Head(s)) \/ IsSpace(Head(s)) \/ Head(s) = "+"
         THEN <<Head(s)>> \o stripPunctuation(Tail(s))
         ELSE stripPunctuation(Tail(s))

normalizeCert(cert) ==
    trim(collapseSpaces(stripPunctuation(dashesToSpaces(toLowerCase(cert)))))

\* the containment tested in one direction only
certsMatch_oneWay(a, b) ==
    LET aCompact == removeSpaces(a)
        bCompact == removeSpaces(b)
    IN  \/ a = b
        \/ includes(a, b)
        \/ aCompact = bCompact
        \/ includes(aCompact, bCompact)

certsMatch(a, b) ==
    LET aCompact == removeSpaces(a)
        bCompact == removeSpaces(b)
    IN  \/ a = b
        \/ includes(a, b) \/ includes(b, a)
        \/ aCompact = bCompact
        \/ includes(aCompact, bCompact) \/ includes(bCompact, aCompact)

IsLetter(c) == IsUpper(c) \/ IsLower(c)

\* positions where /\b([A-Z]{2})\b/i matches in s
StateCodeMatches(s) ==
    {i \in 1..(Len(s) - 1) :
        /\ IsLetter(s[i]) /\ IsLetter(s[i + 1])
        /\ (i = 1 \/ ~IsWordChar(s[i - 1]))
        /\ (i + 1 = Len(s) \/ ~IsWordChar(s[i + 2]))}

Min(S) == CHOOSE x \in S : \A y \in S : x <= y

\* the `states` table of extractState, in insertion order
StateNames == <<
    << <<"t","e","x","a","s">>, <<"T","X">> >>,
    << <<"o","h","i","o">>, <<"O","H">> >>,
    << <<"g","e","o","r","g","i","a">>, <<"G","A">> >>,
    << <<"i","l","l","i","n","o","i","s">>, <<"I","L">> >>,
    << <<"c","a","l","i","f","o","r","n","i","a">>, <<"C","A">> >>,
    << <<"v","i","r","g","i","n","i","a">>, <<"V","A">> >>,
    << <<"o","r","e","g","o","n">>, <<"O","R">> >>,
    << <<"n","e","v","a","d","a">>, <<"N","V">> >> >>

extractState(location) ==
    LET m == StateCodeMatches(location)
        named == {k \in 1..Len(StateNames) : includes(location, StateNames[k][1])}
    IN  IF m # {}
        THEN Some(toUpperCase(SubSeq(location, Min(m), Min(m) + 1)))
        ELSE IF named # {} THEN Some(StateNames[Min(named)][2])
        ELSE Null

\* ------------------------------------------------------------------------
\* Fixed-point scores
\* ------------------------------------------------------------------------
\* quarter points per point: the finest fraction in the scorer is
\* WEIGHTS.proximity * 0.25 = 6.25
Quarter == 4
Pts(n) == n * Quarter

\* x * (num/den) for a product that is a whole number of quarter points
Times(x, num, den) == (x * num) \div den

\* Math.round on quarter points: the nearest whole point, halves upwards
Round(x) == ((2 * x + Quarter) \div (2 * Quarter)) * Quarter

\* Math.round(num/den) in whole numbers, den > 0
RoundDiv(num, den) == (2 * num + den) \div (2 * den)

\* Math.min
MinOf(a, b) == IF a <= b THEN a ELSE b
\* Math.max
MaxOf(a, b) == IF a >= b THEN a ELSE b

\* ------------------------------------------------------------------------
\* Configuration
\* ------------------------------------------------------------------------
WEIGHTS == [certs       |-> Pts(40),
            proximity   |-> Pts(25),
            experience  |-> Pts(20),
            freshness   |-> Pts(10),
            travelBonus |-> Pts(5)]

MIN_ELIGIBLE_SCORE == Pts(25)

\* (1000 * 60 * 60 * 24) milliseconds, in hours
HoursPerDay == 24

\* ------------------------------------------------------------------------
\* Core scoring functions
\* ------------------------------------------------------------------------
\* number of required certifications some candidate certification matches
MatchedCount(candidateCerts, requiredCerts) ==
    LET normalizedCandidate == [i \in 1..Len(candidateCerts) |-> normalizeCert(candidateCerts[i])]
        normalizedRequired  == [i \in 1..Len(requiredCerts) |-> normalizeCert(requiredCerts[i])]
    IN  Cardinality({r \in 1..Len(normalizedRequired) :
            \E c \in 1..Len(normalizedCandidate) :
                certsMatch(normalizedCandidate[c], normalizedRequired[r])})

\* scoreCertifications without the 0.9 penalty on a partial match
scoreCertifications_noPenalty(candidateCerts, requiredCerts) ==
    IF Len(requiredCerts) = 0 THEN Times(WEIGHTS.certs, 6, 10)
    ELSE Pts(RoundDiv(MatchedCount(candidateCerts, requiredCerts) * 40,
                      Len(requiredCerts)))

scoreCertifications(candidateCerts, requiredCerts) ==
    IF Len(requiredCerts) = 0 THEN Times(WEIGHTS.certs, 6, 10)
    ELSE LET matched == MatchedCount(candidateCerts, requiredCerts)
         IN  IF matched = Len(requiredCerts) THEN WEIGHTS.certs
             \* Math.round(ratio * WEIGHTS.certs * 0.9)
             ELSE Pts(RoundDiv(matched * 36, Len(requiredCerts)))

\* the modelled coordinates, in 1/10000 of a degree
GeoPoints == [Houston        |-> <<297604, -953698>>,
              Pasadena       |-> <<296911, -952091>>,
              Katy           |-> <<297858, -958245>>,
              CollegeStation |-> <<306280, -963344>>,
              Dallas         |-> <<327767, -967970>>,
              Greenwich      |-> <<514779, 0>>,
              Atlanta        |-> <<337490, -843880>>,
              Columbus       |-> <<399612, -829988>>,
              Chicago        |-> <<418781, -876298>>]

\* the Haversine formula (R = 3959) evaluated on the modelled coordinates,
\* rounded up to whole miles: for a whole number n, dist <= n exactly when
\* the rounded-up distance is <= n
HaversineMiles == {
    <<"Houston", "Pasadena", 11>>,         <<"Houston", "Katy", 28>>,
    <<"Houston", "CollegeStation", 84>>,   <<"Houston", "Dallas", 225>>,
    <<"Houston", "Greenwich", 4855>>,      <<"Pasadena", "Katy", 38>>,
    <<"Pasadena", "CollegeStation", 94>>,  <<"Pasadena", "Dallas", 233>>,
    <<"Pasadena", "Greenwich", 4853>>,     <<"Katy", "CollegeStation", 66>>,
    <<"Katy", "Dallas", 215>>,             <<"Katy", "Greenwich", 4872>>,
    <<"CollegeStation", "Dallas", 151>>,   <<"CollegeStation", "Greenwich", 4848>>,
    <<"Dallas", "Greenwich", 4755>>,
    <<"Houston", "Atlanta", 702>>,         <<"Houston", "Columbus", 993>>,
    <<"Houston", "Chicago", 942>>,         <<"Katy", "Atlanta", 725>>,
    <<"Katy", "Columbus", 1010>>,          <<"Katy", "Chicago", 953>>,
    <<"Atlanta", "Columbus", 437>>,        <<"Atlanta", "Chicago", 589>>,
    <<"Columbus", "Chicago", 276>> }

haversineDistance(lat1, lon1, lat2, lon2) ==
    IF lat1 = lat2 /\ lon1 = lon2 THEN 0
    ELSE LET a == CHOOSE n \in DOMAIN GeoPoints : GeoPoints[n] = <<lat1, lon1>>
             b == CHOOSE n \in DOMAIN GeoPoints : GeoPoints[n] = <<lat2, lon2>>
         IN  (CHOOSE t \in HaversineMiles : {t[1], t[2]} = {a, b})[3]

scoreProximity(candidate, criteria) ==
    IF /\ TruthyNum(candidate.latitude) /\ TruthyNum(candidate.longitude)
       /\ TruthyNum(criteria.latitude) /\ TruthyNum(criteria.longitude)
    THEN LET dist == haversineDistance(candidate.latitude[1], candidate.longitude[1],
                                       criteria.latitude[1], criteria.longitude[1])
         IN  IF dist <= 25 THEN WEIGHTS.proximity
             ELSE IF dist <= 50 THEN Times(WEIGHTS.proximity, 8, 10)
             ELSE IF dist <= 100 THEN Times(WEIGHTS.proximity, 5, 10)
             ELSE IF dist <= criteria.radiusMiles THEN Times(WEIGHTS.proximity, 25, 100)
             ELSE 0
    ELSE LET candCity   == trim(toLowerCase(candidate.location[1]))
             targetCity == trim(toLowerCase(criteria.location[1]))
             candState   == extractState(candCity)
             targetState == extractState(targetCity)
         IN  IF TruthyStr(candidate.location) /\ TruthyStr(criteria.location)
             THEN IF candCity = targetCity THEN WEIGHTS.proximity
                  ELSE IF includes(candCity, targetCity) \/ includes(targetCity, candCity)
                       THEN Times(WEIGHTS.proximity, 7, 10)
                  ELSE IF candState # Null /\ targetState # Null /\ candState = targetState
                       THEN Times(WEIGHTS.proximity, 4, 10)
                  ELSE Times(WEIGHTS.proximity, 3, 10)
             ELSE Times(WEIGHTS.proximity, 3, 10)

\* Math.round(Math.min(Math.log(years + 1) / Math.log(16), 1.0) * 20) for
\* years = 0..14; from 15 years on the curve is saturated at 20
LogCurve == <<0, 5, 8, 10, 12, 13, 14, 15, 16, 17, 17, 18, 19, 19, 20>>

scoreExperience(yearsExperience, minRequired) ==
    IF yearsExperience < minRequired
    THEN \* Math.round((years / Math.max(minRequired, 1)) * WEIGHTS.experience * 0.6)
         Pts(RoundDiv(yearsExperience * 12, MaxOf(minRequired, 1)))
    ELSE IF yearsExperience >= 15 THEN WEIGHTS.experience
    ELSE Pts(LogCurve[yearsExperience + 1])

scoreFreshness(lastActive, clock) ==
    LET daysSince == (clock - lastActive) \div HoursPerDay
    IN  IF daysSince < 7 THEN WEIGHTS.freshness
        ELSE IF daysSince < 30 THEN Times(WEIGHTS.freshness, 8, 10)
        ELSE IF daysSince < 90 THEN Times(WEIGHTS.freshness, 5, 10)
        ELSE IF daysSince < 180 THEN Times(WEIGHTS.freshness, 2, 10)
        ELSE 0

\* scoreTravelBonus without Math.round
scoreTravelBonus_unrounded(candidate, proximityScore) ==
    IF ~candidate.willingToTravel THEN 0
    ELSE Times(WEIGHTS.travelBonus, WEIGHTS.proximity - proximityScore,
               WEIGHTS.proximity)

\* scoreTravelBonus with proximityScore / WEIGHTS.proximity for the
\* distance penalty 1 - proximityScore / WEIGHTS.proximity
scoreTravelBonus_noPenalty(candidate, proximityScore) ==
    IF ~candidate.willingToTravel THEN 0
    ELSE Round(Times(WEIGHTS.travelBonus, proximityScore, WEIGHTS.proximity))

scoreTravelBonus(candidate, proximityScore) ==
    IF ~candidate.willingToTravel THEN 0
    \* Math.round(WEIGHTS.travelBonus * (1 - proximityScore / WEIGHTS.proximity))
    ELSE Round(Times(WEIGHTS.travelBonus, WEIGHTS.proximity - proximityScore,
                     WEIGHTS.proximity))

\* ------------------------------------------------------------------------
\* Hard filters
\* ------------------------------------------------------------------------
NoSmsOptIn == "No SMS opt-in consent"
NoPhone == "No phone number on file"

\* applyHardFilters with `candidate.phone === null` for `!candidate.phone`
applyHardFilters_nullOnly(candidate, criteria) ==
    (IF ~candidate.smsOptIn THEN <<NoSmsOptIn>> ELSE <<>>)
    \o (IF candidate.phone = Null THEN <<NoPhone>> ELSE <<>>)

applyHardFilters(candidate, criteria) ==
    (IF ~candidate.smsOptIn THEN <<NoSmsOptIn>> ELSE <<>>)
    \o (IF ~TruthyStr(candidate.phone) THEN <<NoPhone>> ELSE <<>>)

\* ------------------------------------------------------------------------
\* Main pipeline
\* ------------------------------------------------------------------------
\* the five sub-scores as scoreCandidate holds them before rounding
SubScores(candidate, criteria, clock) ==
    LET WithProximity(proximityScore) ==
            [certScore       |-> scoreCertifications(candidate.certifications, criteria.requiredCerts),
             proximityScore  |-> proximityScore,
             experienceScore |-> scoreExperience(candidate.yearsExperience, criteria.minExperience),
             freshnessScore  |-> scoreFreshness(candidate.lastActive, clock),
             travelBonus     |-> scoreTravelBonus(candidate, proximityScore)]
    IN  WithProximity(scoreProximity(candidate, criteria))

\* the locals of the function are the parameters of Scored and Totalled
scoreCandidate(candidate, criteria, clock) ==
    LET Totalled(disqualifyReasons, s, total) ==
            [candidate |-> candidate,
             score     |-> total,
             breakdown |-> [certScore       |-> Round(s.certScore),
                            proximityScore  |-> Round(s.proximityScore),
                            experienceScore |-> Round(s.experienceScore),
                            freshnessScore  |-> Round(s.freshnessScore),
                            travelBonus     |-> Round(s.travelBonus),
                            total           |-> Round(total)],
             eligible  |-> Len(disqualifyReasons) = 0 /\ total >= MIN_ELIGIBLE_SCORE,
             disqualifyReasons |-> disqualifyReasons]
        Scored(disqualifyReasons, s) ==
            Totalled(disqualifyReasons, s,
                     MinOf(s.certScore + s.proximityScore + s.experienceScore
                           + s.freshnessScore + s.travelBonus, Pts(100)))
    IN  Scored(applyHardFilters(candidate, criteria),
               SubScores(candidate, criteria, clock))

\* ------------------------------------------------------------------------
\* Input values
\* ------------------------------------------------------------------------
Str_OSHA_30 == <<"O","S","H","A"," ","3","0">>
Str_NFPA_70E == <<"N","F","P","A"," ","7","0","E">>
Str_OSHA_Dash_30 == <<"O","S","H","A","-","3","0">>
Str_NFPA_Dash_70E == <<"N","F","P","A","-","7","0","E">>
Str_NFPA_70E_ArcFlash == <<"n","f","p","a"," ","7","0","e"," ","a","r","c"," ","f","l","a","s","h">>
Str_osha30 == <<"o","s","h","a","3","0">>
Str_OSHA_10 == <<"O","S","H","A"," ","1","0">>
Str_CPR == <<"C","P","R">>
Str_HoustonTX == <<"H","o","u","s","t","o","n",","," ","T","X">>
Str_PasadenaTX == <<"P","a","s","a","d","e","n","a",","," ","T","X">>
Str_KatyTX == <<"K","a","t","y",","," ","T","X">>
Str_CollegeStationTX == <<"C","o","l","l","e","g","e"," ","S","t","a","t","i","o","n",","," ","T","X">>
Str_DallasTX == <<"D","a","l","l","a","s",","," ","T","X">>
Str_GreenwichUK == <<"G","r","e","e","n","w","i","c","h",","," ","U","K">>
Str_LondonUK == <<"L","o","n","d","o","n",","," ","U","K">>
Str_HoustonOnly == <<"H","o","u","s","t","o","n">>
Str_AustinTexas == <<"A","u","s","t","i","n",","," ","T","e","x","a","s">>
Str_StPaulMN == <<"S","t"," ","P","a","u","l",","," ","M","N">>
Str_StLouisMO == <<"S","t"," ","L","o","u","i","s",","," ","M","O">>
Str_PhoneNumber == <<"+","1","8","3","2","5","5","5","1","2","3","4">>

\* ------------------------------------------------------------------------
\* Ranking
\* ------------------------------------------------------------------------
\* the comparator without its eligibility test
compareScored_scoreOnly(a, b) == b.score - a.score

\* the comparator of rankCandidates: negative when a sorts before b
compareScored(a, b) ==
    IF a.eligible # b.eligible THEN (IF a.eligible THEN -1 ELSE 1)
    ELSE b.score - a.score

\* Array.prototype.sort is stable: x goes before the first element that
\* the comparator puts after it
RECURSIVE insertSorted(_, _)
insertSorted(x, sorted) ==
    IF sorted = <<>> THEN <<x>>
    ELSE IF compareScored(Head(sorted), x) > 0 THEN <<x>> \o sorted
    ELSE <<Head(sorted)>> \o insertSorted(x, Tail(sorted))

RECURSIVE sortScored(_)
sortScored(list) ==
    IF list = <<>> THEN <<>>
    ELSE insertSorted(list[Len(list)], sortScored(SubSeq(list, 1, Len(list) - 1)))

rankCandidates(cands, criteria, clock) ==
    sortScored([i \in 1..Len(cands) |-> scoreCandidate(cands[i], criteria, clock)])

\* scored.filter(callback).length, keep[i] being the callback's result on
\* scored[i]
CountWhere(scored, keep) == Cardinality({i \in 1..Len(scored) : keep[i]})

\* the top tier counted without the eligibility test
estimateMatchCount_scoreOnly(cands, criteria, clock) ==
    LET isEligible(s) == s.eligible
        isTopTier(s) == s.score >= Pts(70)
        Counts(scored) ==
            [total |-> Len(scored),
             eligible |-> CountWhere(scored, [i \in DOMAIN scored |-> isEligible(scored[i])]),
             topTier |-> CountWhere(scored, [i \in DOMAIN scored |-> isTopTier(scored[i])])]
    IN  Counts(rankCandidates(cands, criteria, clock))

estimateMatchCount(cands, criteria, clock) ==
    LET isEligible(s) == s.eligible
        isTopTier(s) == s.eligible /\ s.score >= Pts(70)
        Counts(scored) ==
            [total |-> Len(scored),
             eligible |-> CountWhere(scored, [i \in DOMAIN scored |-> isEligible(scored[i])]),
             topTier |-> CountWhere(scored, [i \in DOMAIN scored |-> isTopTier(scored[i])])]
    IN  Counts(rankCandidates(cands, criteria, clock))

\* ======== ats-mapper.ts ========
\* ------------------------------------------------------------------------
\* String utilities (ats-mapper.ts)
\* ------------------------------------------------------------------------
\* the character U+2014
EmDash == "u2014"

\* x || "" for a `string | null`
OrEmpty(x) == IF TruthyStr(x) THEN x[1] ELSE <<>>

\* String(n) for n >= 0
RECURSIVE String(_)
String(n) ==
    LET digit == <<"0","1","2","3","4","5","6","7","8","9">>[(n % 10) + 1]
    IN  IF n < 10 THEN <<digit>> ELSE Append(String(n \div 10), digit)

\* parseInt of a run of digits
RECURSIVE parseInt(_)
parseInt(s) ==
    LET value == CHOOSE v \in 0..9 : String(v) = <<s[Len(s)]>>
    IN  IF Len(s) = 1 THEN value
        ELSE 10 * parseInt(SubSeq(s, 1, Len(s) - 1)) + value

\* s.split(sep) for a one-character separator
RECURSIVE split(_, _)
split(s, sep) ==
    IF \A i \in 1..Len(s) : s[i] # sep THEN <<s>>
    ELSE LET i == CHOOSE j \in 1..Len(s) :
                      s[j] = sep /\ \A k \in 1..(j - 1) : s[k] # sep
         IN  <<SubSeq(s, 1, i - 1)>> \o split(SubSeq(s, i + 1, Len(s)), sep)

\* list.join(sep)
RECURSIVE join(_, _)
join(list, sep) ==
    IF list = <<>> THEN <<>>
    ELSE IF Len(list) = 1 THEN list[1]
    ELSE list[1] \o sep \o join(Tail(list), sep)

\* list.slice(from, to) for 0 <= from
slice(list, from, to) == SubSeq(list, from + 1, MinOf(to, Len(list)))

\* the elements of the set S of numbers within lo..hi, in ascending order
RECURSIVE Ascending(_, _, _)
Ascending(S, lo, hi) ==
    IF lo > hi THEN <<>>
    ELSE IF lo = hi THEN (IF lo \in S THEN <<lo>> ELSE <<>>)
    ELSE LET mid == (lo + hi) \div 2
         IN  Ascending(S, lo, mid) \o Ascending(S, mid + 1, hi)

\* list.filter(callback), keep[i] being the callback's result on list[i]
filter(list, keep) ==
    LET kept == Ascending({i \in 1..Len(list) : keep[i]}, 1, Len(list))
    IN  [n \in 1..Len(kept) |-> list[kept[n]]]

\* the maximal runs of characters of s that are not separators, isSep[i]
\* telling whether s[i] is one
Runs(s, isSep) ==
    LET starts == Ascending({i \in 1..Len(s) :
                                ~isSep[i] /\ (i = 1 \/ isSep[i - 1])},
                            1, Len(s))
        end(i) == CHOOSE j \in i..Len(s) :
                      /\ \A k \in i..j : ~isSep[k]
                      /\ (j = Len(s) \/ isSep[j + 1])
    IN  [n \in 1..Len(starts) |-> SubSeq(s, starts[n], end(starts[n]))]

\* label.toLowerCase().replace(/[^a-z0-9]+/g, "_").replace(/^_|_$/g, ""):
\* the runs of letters and digits joined by "_"; the "_" a run of other
\* characters leaves at either end is removed by the second replace
normalizeFieldId(label) ==
    LET isOther(c) == ~(IsLower(c) \/ IsDigit(c))
        lower == toLowerCase(label)
    IN  join(Runs(lower, [i \in DOMAIN lower |-> isOther(lower[i])]), <<"_">>)

\* ------------------------------------------------------------------------
\* ATS field schemas
\* ------------------------------------------------------------------------
Str_Yes == <<"Y","e","s">>
Str_No == <<"N","o">>

\* the mapper functions of STANDARD_FIELD_PATTERNS
Mapper(kind, p) ==
    CASE kind = "name" -> p.name
      [] kind = "first" -> split(p.name, " ")[1]
      [] kind = "last" -> join(Tail(split(p.name, " ")), <<" ">>)
      [] kind = "email" -> p.email
      [] kind = "phone" -> OrEmpty(p.phone)
      [] kind = "location" -> OrEmpty(p.location)
      [] kind = "city" ->
            IF p.location = Null THEN <<>> ELSE trim(split(p.location[1], ",")[1])
      [] kind = "state" ->
            IF p.location = Null \/ Len(split(p.location[1], ",")) < 2 THEN <<>>
            ELSE trim(split(p.location[1], ",")[2])
      [] kind = "blank" -> <<>>
      [] kind = "years" -> String(p.yearsExperience)
      [] kind = "total" -> String(p.yearsExperience) \o <<" ","y","e","a","r","s">>
      [] kind = "headline" -> OrEmpty(p.headline)
      [] kind = "summary" -> OrEmpty(p.summary)
      [] kind = "certs" -> join(p.certifications, <<",", " ">>)
      [] kind = "travel" -> IF p.willingToTravel THEN Str_Yes ELSE Str_No
      [] kind = "yes" -> Str_Yes

\* the entries of STANDARD_FIELD_PATTERNS, in insertion order
STANDARD_FIELD_PATTERNS == <<
    [pattern |-> <<"f","u","l","l","_","n","a","m","e">>, mapper |-> "name"],
    [pattern |-> <<"f","i","r","s","t","_","n","a","m","e">>, mapper |-> "first"],
    [pattern |-> <<"l","a","s","t","_","n","a","m","e">>, mapper |-> "last"],
    [pattern |-> <<"n","a","m","e">>, mapper |-> "name"],
    [pattern |-> <<"e","m","a","i","l">>, mapper |-> "email"],
    [pattern |-> <<"e","m","a","i","l","_","a","d","d","r","e","s","s">>, mapper |-> "email"],
    [pattern |-> <<"p","h","o","n","e">>, mapper |-> "phone"],
    [pattern |-> <<"p","h","o","n","e","_","n","u","m","b","e","r">>, mapper |-> "phone"],
    [pattern |-> <<"m","o","b","i","l","e">>, mapper |-> "phone"],
    [pattern |-> <<"l","o","c","a","t","i","o","n">>, mapper |-> "location"],
    [pattern |-> <<"c","i","t","y">>, mapper |-> "city"],
    [pattern |-> <<"s","t","a","t","e">>, mapper |-> "state"],
    [pattern |-> <<"a","d","d","r","e","s","s">>, mapper |-> "location"],
    [pattern |-> <<"z","i","p">>, mapper |-> "blank"],
    [pattern |-> <<"z","i","p","_","c","o","d","e">>, mapper |-> "blank"],
    [pattern |-> <<"y","e","a","r","s","_","e","x","p","e","r","i","e","n","c","e">>, mapper |-> "years"],
    [pattern |-> <<"e","x","p","e","r","i","e","n","c","e">>, mapper |-> "years"],
    [pattern |-> <<"t","o","t","a","l","_","e","x","p","e","r","i","e","n","c","e">>, mapper |-> "total"],
    [pattern |-> <<"h","e","a","d","l","i","n","e">>, mapper |-> "headline"],
    [pattern |-> <<"t","i","t","l","e">>, mapper |-> "headline"],
    [pattern |-> <<"c","u","r","r","e","n","t","_","t","i","t","l","e">>, mapper |-> "headline"],
    [pattern |-> <<"s","u","m","m","a","r","y">>, mapper |-> "summary"],
    [pattern |-> <<"l","i","n","k","e","d","i","n">>, mapper |-> "blank"],
    [pattern |-> <<"w","e","b","s","i","t","e">>, mapper |-> "blank"],
    [pattern |-> <<"p","o","r","t","f","o","l","i","o">>, mapper |-> "blank"],
    [pattern |-> <<"c","e","r","t","i","f","i","c","a","t","i","o","n","s">>, mapper |-> "certs"],
    [pattern |-> <<"l","i","c","e","n","s","e","s">>, mapper |-> "certs"],
    [pattern |-> <<"c","r","e","d","e","n","t","i","a","l","s">>, mapper |-> "certs"],
    [pattern |-> <<"w","i","l","l","i","n","g","_","t","o","_","t","r","a","v","e",
          "l">>, mapper |-> "travel"],
    [pattern |-> <<"w","i","l","l","i","n","g","_","t","o","_","r","e","l","o","c","a",
          "t","e">>, mapper |-> "travel"],
    [pattern |-> <<"r","e","l","o","c","a","t","i","o","n">>, mapper |-> "travel"],
    [pattern |-> <<"a","u","t","h","o","r","i","z","e","d","_","t","o","_","w","o","r",
          "k">>, mapper |-> "yes"],
    [pattern |-> <<"w","o","r","k","_","a","u","t","h","o","r","i","z","a","t","i","o",
          "n">>, mapper |-> "yes"],
    [pattern |-> <<"u","s","_","c","i","t","i","z","e","n">>, mapper |-> "blank"],
    [pattern |-> <<"r","e","q","u","i","r","e","s","_","s","p","o","n","s","o","r","s",
          "h","i","p">>, mapper |-> "blank"] >>

\* ------------------------------------------------------------------------
\* Template layer
\* ------------------------------------------------------------------------
\* a FieldAnswer; confidence in hundredths
FieldAnswer(fieldId, value, source, confidence) ==
    [fieldId |-> fieldId, value |-> value, source |-> source,
     confidence |-> confidence]

\* the position of the first match of /(\d+)\s*[-–]\s*(\d+)/ in opt, as
\* <<lo, hi>>, or <<>>; the en dash is outside the alphabet of the inputs
RangeMatch(opt) ==
    LET starts == {i \in 1..Len(opt) : IsDigit(opt[i])}
        \* the end of the longest run of digits from i
        runEnd(i) == CHOOSE j \in i..Len(opt) :
                         /\ \A k \in i..j : IsDigit(opt[k])
                         /\ (j = Len(opt) \/ ~IsDigit(opt[j + 1]))
        \* the first position after the spaces from i
        skip(i) == CHOOSE j \in i..(Len(opt) + 1) :
                         /\ \A k \in i..(j - 1) : IsSpace(opt[k])
                         /\ (j = Len(opt) + 1 \/ ~IsSpace(opt[j]))
        \* a greedy (\d+) followed by anything but a digit never needs to
        \* give characters back, so the match from i is decided by the runs
        dashAt(i) == skip(runEnd(i) + 1)
        hiAt(i) == skip(dashAt(i) + 1)
        matchesAt(i) ==
            /\ dashAt(i) <= Len(opt) /\ opt[dashAt(i)] = "-"
            /\ hiAt(i) <= Len(opt) /\ IsDigit(opt[hiAt(i)])
        matching == {i \in starts : matchesAt(i)}
    IN  IF matching = {} THEN <<>>
        ELSE LET i == Min(matching)
             IN  <<parseInt(SubSeq(opt, i, runEnd(i))),
                   parseInt(SubSeq(opt, hiAt(i), runEnd(hiAt(i))))>>

\* the first match of /(\d+)\+/ in opt, as <<n>>, or <<>>
PlusMatch(opt) ==
    LET matching == {i \in 1..Len(opt) :
                        /\ IsDigit(opt[i])
                        /\ \E j \in i..(Len(opt) - 1) :
                              /\ \A k \in i..j : IsDigit(opt[k])
                              /\ opt[j + 1] = "+"}
    IN  IF matching = {} THEN <<>>
        ELSE LET i == Min(matching)
                 j == CHOOSE k \in i..(Len(opt) - 1) :
                          (\A l \in i..k : IsDigit(opt[l])) /\ opt[k + 1] = "+"
             IN  <<parseInt(SubSeq(opt, i, j))>>

\* options.find(callback): the first option that passes, or Null; test[i] is
\* the callback's result on options[i]
find(options, test) ==
    LET passing == {i \in 1..Len(options) : test[i]}
    IN  IF passing = {} THEN Null ELSE Some(options[Min(passing)])

Str_experience == <<"e","x","p","e","r","i","e","n","c","e">>
Str_years == <<"y","e","a","r","s">>
Str_travel == <<"t","r","a","v","e","l">>
Str_relocat == <<"r","e","l","o","c","a","t">>

matchSelectOption(field, profile) ==
    LET label == toLowerCase(field.label)
        options == field.options
        inRange(opt) ==
            LET range == RangeMatch(opt)
                single == PlusMatch(opt)
            IN  IF range # <<>>
                THEN profile.yearsExperience >= range[1]
                     /\ profile.yearsExperience <= range[2]
                ELSE IF single # <<>> THEN profile.yearsExperience >= single[1]
                ELSE FALSE
        best == IF includes(label, Str_experience) \/ includes(label, Str_years)
                THEN find(options, [i \in DOMAIN options |-> inRange(options[i])]) ELSE Null
        val == IF profile.willingToTravel THEN Str_Yes ELSE Str_No
        isVal(o) == toLowerCase(o) = toLowerCase(val)
        match == IF includes(label, Str_travel) \/ includes(label, Str_relocat)
                 THEN find(options, [i \in DOMAIN options |-> isVal(options[i])]) ELSE Null
    IN  IF TruthyStr(best)
        THEN Some(FieldAnswer(field.fieldId, best[1], "template", 90))
        ELSE IF TruthyStr(match)
        THEN Some(FieldAnswer(field.fieldId, match[1], "template", 100))
        ELSE Null

tryTemplateMatch(field, profile) ==
    LET normalized == normalizeFieldId(field.label)
        direct == {i \in 1..Len(STANDARD_FIELD_PATTERNS) :
                      STANDARD_FIELD_PATTERNS[i].pattern = normalized}
        fuzzy == {i \in 1..Len(STANDARD_FIELD_PATTERNS) :
                     LET pattern == STANDARD_FIELD_PATTERNS[i].pattern
                     IN  includes(normalized, pattern) \/ includes(pattern, normalized)}
    IN  IF direct # {}
        THEN LET value == Mapper(STANDARD_FIELD_PATTERNS[Min(direct)].mapper, profile)
             IN  Some(FieldAnswer(field.fieldId, value, "template",
                                  IF value # <<>> THEN 100 ELSE 30))
        ELSE IF fuzzy # {}
        THEN LET value == Mapper(STANDARD_FIELD_PATTERNS[Min(fuzzy)].mapper, profile)
             IN  Some(FieldAnswer(field.fieldId, value, "template",
                                  IF value # <<>> THEN 80 ELSE 20))
        ELSE IF field.type = "select" /\ field.options # Null
        THEN matchSelectOption([field EXCEPT !.options = field.options[1]], profile)
        ELSE Null

\* ------------------------------------------------------------------------
\* Helpers (ats-mapper.ts)
\* ------------------------------------------------------------------------
\* text.slice(0, end): a negative end counts from the end of the text
sliceTo(text, end) ==
    IF end < 0 THEN SubSeq(text, 1, MaxOf(Len(text) + end, 0))
    ELSE SubSeq(text, 1, MinOf(end, Len(text)))

\* s.replace(/\s+\S*$/, ""): cuts from the start of the last run of
\* whitespace
dropLastWord(s) ==
    LET spaces == {i \in 1..Len(s) : IsSpace(s[i])}
        last == CHOOSE i \in spaces : \A j \in spaces : j <= i
        start == CHOOSE i \in 1..last :
                     /\ \A k \in i..last : IsSpace(s[k])
                     /\ (i = 1 \/ ~IsSpace(s[i - 1]))
    IN  IF spaces = {} THEN s ELSE SubSeq(s, 1, start - 1)

truncate(text, maxLen) ==
    IF Len(text) <= maxLen THEN text
    ELSE dropLastWord(sliceTo(text, maxLen - 3)) \o <<".", ".", ".">>

STOP_WORDS == {
    <<"t","h","e">>, <<"a">>, <<"a","n">>, <<"a","n","d">>, <<"o","r">>, <<"b","u","t">>, <<"i","n">>, <<"o","n">>,
    <<"a","t">>, <<"t","o">>, <<"f","o","r">>, <<"o","f">>, <<"w","i","t","h">>, <<"b","y">>, <<"f","r","o","m">>, <<"i","s">>,
    <<"a","r","e">>, <<"w","a","s">>, <<"w","e","r","e">>, <<"b","e">>, <<"b","e","e","n">>, <<"h","a","v","e">>, <<"h","a","s">>,
    <<"h","a","d">>, <<"d","o">>, <<"d","o","e","s">>, <<"d","i","d">>, <<"w","i","l","l">>, <<"w","o","u","l","d">>, <<"c","o","u","l","d">>,
    <<"s","h","o","u","l","d">>, <<"m","a","y">>, <<"m","i","g","h","t">>, <<"m","u","s","t">>, <<"s","h","a","l","l">>, <<"c","a","n">>,
    <<"t","h","i","s">>, <<"t","h","a","t">>, <<"t","h","e","s","e">>, <<"t","h","o","s","e">>, <<"i","t">>, <<"i","t","s">>, <<"w","e">>,
    <<"o","u","r">>, <<"y","o","u">>, <<"y","o","u","r">>, <<"t","h","e","y">>, <<"t","h","e","i","r">>, <<"a","l","l">>, <<"e","a","c","h">>,
    <<"e","v","e","r","y">>, <<"b","o","t","h">>, <<"f","e","w">>, <<"m","o","r","e">>, <<"m","o","s","t">>, <<"o","t","h","e","r">>,
    <<"s","o","m","e">>, <<"s","u","c","h">>, <<"n","o">>, <<"n","o","t">>, <<"o","n","l","y">>, <<"o","w","n">>, <<"s","a","m","e">>,
    <<"s","o">>, <<"t","h","a","n">>, <<"t","o","o">>, <<"v","e","r","y">>, <<"j","u","s","t">>, <<"a","l","s","o">> }

\* [...new Set(list)]: the first occurrence of each element, in order
unique(list) ==
    LET firsts == Ascending({i \in 1..Len(list) :
                                \A j \in 1..(i - 1) : list[j] # list[i]},
                            1, Len(list))
    IN  [n \in 1..Len(firsts) |-> list[firsts[n]]]

extractKeywords(text) ==
    LET isOther(c) == ~(IsLower(c) \/ IsDigit(c))
        isKeyword(w) == Len(w) > 2 /\ w \notin STOP_WORDS
        lower == toLowerCase(text)
        words == Runs(lower, [i \in DOMAIN lower |-> isOther(lower[i])])
    IN  unique(filter(words, [i \in DOMAIN words |-> isKeyword(words[i])]))

\* the sentences sorted by hits, largest first, ties in their order
sortByHits(scored) ==
    LET before(i, j) == \/ scored[i].hits > scored[j].hits
                        \/ (scored[i].hits = scored[j].hits /\ i < j)
        at(n) == CHOOSE i \in 1..Len(scored) :
                     Cardinality({j \in 1..Len(scored) : before(j, i)}) = n - 1
    IN  [n \in 1..Len(scored) |-> scored[at(n)]]

findRelevantExcerpt(resumeText, keywords) ==
    IF resumeText = <<>> \/ keywords = <<>> THEN <<>>
    ELSE LET isEnd(c) == c \in {".", "!", "?", "\n"}
             isLong(s) == Len(trim(s)) > 20
             parts == Runs(resumeText, [i \in DOMAIN resumeText |-> isEnd(resumeText[i])])
             sentences == filter(parts, [i \in DOMAIN parts |-> isLong(parts[i])])
             score(sentence) ==
                 [sentence |-> trim(sentence),
                  hits |-> Cardinality({i \in 1..Len(keywords) :
                               includes(toLowerCase(sentence), keywords[i])})]
             scored == sortByHits([i \in 1..Len(sentences) |-> score(sentences[i])])
             hasHits(s) == s.hits > 0
             first3 == slice(scored, 0, 3)
             top == filter(first3, [i \in DOMAIN first3 |-> hasHits(first3[i])])
         IN  IF top = <<>> THEN <<>>
             ELSE join([i \in 1..Len(top) |-> top[i].sentence], <<".", " ">>) \o <<".">>

\* ------------------------------------------------------------------------
\* Synthesis layer: answers for screening questions
\* ------------------------------------------------------------------------
questionIndicators == {
    <<"w","h","y">>, <<"h","o","w">>, <<"d","e","s","c","r","i","b","e">>, <<"e","x","p","l","a","i","n">>, <<"t","e","l","l"," ","u","s">>,
    <<"w","h","a","t"," ","m","a","k","e","s">>, <<"e","x","p","e","r","i","e","n","c","e"," ","w","i","t","h">>, <<"f","a","m","i","l","i","a","r"," ","w","i","t","h">>,
    <<"w","o","r","k","e","d"," ","w","i","t","h">>, <<"c","o","v","e","r"," ","l","e","t","t","e","r">>, <<"a","d","d","i","t","i","o","n","a","l"," ","i","n","f","o","r","m",
          "a","t","i","o","n">>,
    <<"a","n","y","t","h","i","n","g"," ","e","l","s","e">>, <<"s","a","l","a","r","y"," ","e","x","p","e","c","t","a","t","i","o",
          "n">>, <<"a","v","a","i","l","a","b","l","e"," ","s","t","a","r","t">>,
    <<"s","t","a","r","t"," ","d","a","t","e">> }

isScreeningQuestion(field) ==
    IF field.type # "textarea" /\ field.type # "text" THEN FALSE
    ELSE \E q \in questionIndicators : includes(toLowerCase(field.label), q)

\* a || b for strings
OrElse(a, b) == IF a # <<>> THEN a ELSE b

WhyAnswer(profile, jobTitle) ==
    <<"W","i","t","h"," ">> \o String(profile.yearsExperience)
    \o <<" ","y","e","a","r","s"," ","i","n"," ","m","i","s","s","i","o","n",
          "-","c","r","i","t","i","c","a","l"," ","i","n","f","r","a","s","t",
          "r","u","c","t","u","r","e"," ","a","n","d"," ","a","c","t","i","v",
          "e"," ","c","e","r","t","i","f","i","c","a","t","i","o","n","s"," ",
          "i","n"," ">>
    \o OrElse(join(slice(profile.certifications, 0, 3), <<",", " ">>),
              <<"r","e","l","e","v","a","n","t"," ","t","r","a","d","e","s">>)
    \o <<","," ","I","'","m"," ","l","o","o","k","i","n","g"," ","t","o"," ",
          "a","p","p","l","y"," ","m","y"," ","f","i","e","l","d"," ","e","x",
          "p","e","r","i","e","n","c","e"," ","t","o"," ","t","h","i","s",
          " ">> \o jobTitle
    \o <<" ","r","o","l","e","."," ","M","y"," ","b","a","c","k","g","r","o",
          "u","n","d"," ","i","n"," ","d","a","t","a"," ","c","e","n","t","e",
          "r"," ","c","o","n","s","t","r","u","c","t","i","o","n"," ",EmDash,
          " ","f","r","o","m"," ","c","o","m","m","i","s","s","i","o","n","i",
          "n","g"," ","t","o"," ","t","u","r","n","o","v","e","r"," ",EmDash,
          " ","a","l","i","g","n","s"," ","w","e","l","l"," ","w","i","t","h",
          " ","t","h","e"," ","s","c","o","p","e"," ","d","e","s","c","r","i",
          "b","e","d","."," ","I","'","m"," ","d","r","a","w","n"," ","t","o",
          " ","p","r","o","j","e","c","t","s"," ","t","h","a","t"," ","p","u",
          "s","h"," ","t","h","e"," ","e","n","v","e","l","o","p","e"," ","o",
          "n"," ","u","p","t","i","m","e"," ","a","n","d"," ","r","e","l","i",
          "a","b","i","l","i","t","y",".">>

DescribeAnswer(profile) ==
    <<"I"," ","h","a","v","e"," ">> \o String(profile.yearsExperience)
    \o <<" ","y","e","a","r","s"," ","o","f"," ","h","a","n","d","s","-","o",
          "n"," ","e","x","p","e","r","i","e","n","c","e"," ","i","n"," ","d",
          "a","t","a"," ","c","e","n","t","e","r"," ","e","n","v","i","r","o",
          "n","m","e","n","t","s",","," ","h","o","l","d","i","n","g"," ">>
    \o OrElse(join(profile.certifications, <<",", " ">>),
              <<"r","e","l","e","v","a","n","t"," ","i","n","d","u","s","t","r","y",
          " ","c","e","r","t","i","f","i","c","a","t","i","o","n","s">>)
    \o <<"."," ","M","y"," ","w","o","r","k"," ","h","a","s"," ","s","p","a",
          "n","n","e","d"," ","h","y","p","e","r","s","c","a","l","e"," ","n",
          "e","w","-","b","u","i","l","d","s"," ","a","n","d"," ","r","e","t",
          "r","o","f","i","t"," ","p","r","o","j","e","c","t","s",","," ","w",
          "i","t","h"," ","a"," ","f","o","c","u","s"," ","o","n"," ","s","a",
          "f","e","t","y",","," ","c","o","d","e"," ","c","o","m","p","l","i",
          "a","n","c","e",","," ","a","n","d"," ","m","e","e","t","i","n","g",
          " ","a","g","g","r","e","s","s","i","v","e"," ","c","o","m","m","i",
          "s","s","i","o","n","i","n","g"," ","t","i","m","e","l","i","n","e",
          "s",".">>

SalaryAnswer ==
    <<"O","p","e","n"," ","t","o"," ","d","i","s","c","u","s","s","i","n",
          "g"," ","c","o","m","p","e","n","s","a","t","i","o","n"," ","b","a",
          "s","e","d"," ","o","n"," ","t","h","e"," ","f","u","l","l"," ","s",
          "c","o","p","e"," ","o","f"," ","t","h","e"," ","r","o","l","e"," ",
          "a","n","d"," ","p","r","o","j","e","c","t"," ","t","i","m","e","l",
          "i","n","e",".">>

StartAnswer ==
    <<"A","v","a","i","l","a","b","l","e"," ","t","o"," ","s","t","a","r",
          "t"," ","w","i","t","h","i","n"," ","2"," ","w","e","e","k","s"," ",
          "o","f"," ","o","f","f","e","r"," ","a","c","c","e","p","t","a","n",
          "c","e",","," ","o","r"," ","s","o","o","n","e","r"," ","i","f"," ",
          "n","e","e","d","e","d"," ","f","o","r"," ","p","r","o","j","e","c",
          "t"," ","m","o","b","i","l","i","z","a","t","i","o","n",".">>

CoverLetterAnswer(profile, jobTitle) ==
    <<"I","'","m"," ","w","r","i","t","i","n","g"," ","t","o"," ","e","x",
          "p","r","e","s","s"," ","m","y"," ","i","n","t","e","r","e","s","t",
          " ","i","n"," ","t","h","e"," ">> \o jobTitle
    \o <<" ","p","o","s","i","t","i","o","n","."," ","W","i","t","h"," ">> \o String(profile.yearsExperience)
    \o <<" ","y","e","a","r","s"," ","i","n"," ","m","i","s","s","i","o","n",
          "-","c","r","i","t","i","c","a","l"," ","c","o","n","s","t","r","u",
          "c","t","i","o","n"," ","a","n","d"," ","c","e","r","t","i","f","i",
          "c","a","t","i","o","n","s"," ","i","n","c","l","u","d","i","n","g",
          " ">>
    \o OrElse(join(slice(profile.certifications, 0, 4), <<",", " ">>),
              <<"O","S","H","A"," ","a","n","d"," ","t","r","a","d","e","-","s","p",
          "e","c","i","f","i","c"," ","c","r","e","d","e","n","t","i","a","l",
          "s">>)
    \o <<","," ","I","'","v","e"," ","d","e","v","e","l","o","p","e","d"," ",
          "d","e","e","p"," ","e","x","p","e","r","t","i","s","e"," ","i","n",
          " ","t","h","e"," ","k","i","n","d"," ","o","f"," ","w","o","r","k",
          " ","t","h","i","s"," ","r","o","l","e"," ","d","e","m","a","n","d",
          "s",".","\n","\n">>
    \o OrElse(OrEmpty(profile.summary),
              <<"M","y"," ","c","a","r","e","e","r"," ","h","a","s"," ","b","e","e",
          "n"," ","f","o","c","u","s","e","d"," ","o","n"," ","d","e","l","i",
          "v","e","r","i","n","g"," ","d","a","t","a"," ","c","e","n","t","e",
          "r"," ","p","r","o","j","e","c","t","s"," ","s","a","f","e","l","y",
          ","," ","o","n","-","t","i","m","e",","," ","a","n","d"," ","t","o",
          " ","s","p","e","c",".">>)
    \o <<"\n","\n","I","'","m"," ">>
    \o (IF profile.willingToTravel THEN <<"a","v","a","i","l","a","b","l","e"," ","f","o","r"," ","t","r","a",
          "v","e","l"," ","a","s","s","i","g","n","m","e","n","t","s"," ","a",
          "n","d">>
        ELSE <<>>)
    \o <<" ","r","e","a","d","y"," ","t","o"," ","b","r","i","n","g"," ","m",
          "y"," ","s","k","i","l","l","s"," ","t","o"," ","y","o","u","r"," ",
          "t","e","a","m","."," ","I","'","d"," ","w","e","l","c","o","m","e",
          " ","t","h","e"," ","o","p","p","o","r","t","u","n","i","t","y"," ",
          "t","o"," ","d","i","s","c","u","s","s"," ","h","o","w"," ","m","y",
          " ","b","a","c","k","g","r","o","u","n","d"," ","f","i","t","s"," ",
          "y","o","u","r"," ","p","r","o","j","e","c","t"," ","n","e","e","d",
          "s",".">>

GenericAnswer(profile) ==
    String(profile.yearsExperience)
    \o <<" ","y","e","a","r","s"," ","o","f"," ","d","a","t","a"," ","c","e",
          "n","t","e","r"," ","c","o","n","s","t","r","u","c","t","i","o","n",
          " ","e","x","p","e","r","i","e","n","c","e"," ","w","i","t","h"," ",
          "c","e","r","t","i","f","i","c","a","t","i","o","n","s"," ","i","n",
          " ">>
    \o OrElse(join(slice(profile.certifications, 0, 3), <<",", " ">>),
              <<"r","e","l","e","v","a","n","t"," ","t","r","a","d","e","s">>)
    \o <<"."," ">>
    \o OrElse(OrEmpty(profile.summary),
              <<"E","x","p","e","r","i","e","n","c","e","d"," ","i","n"," ","m","i",
          "s","s","i","o","n","-","c","r","i","t","i","c","a","l"," ","i","n",
          "f","r","a","s","t","r","u","c","t","u","r","e"," ","f","r","o","m",
          " ","g","r","o","u","n","d","-","u","p"," ","b","u","i","l","d","s",
          " ","t","o"," ","c","o","m","m","i","s","s","i","o","n","i","n","g",
          ".">>)

generateScreeningAnswer(field, profile, jobTitle, jobDescription, jobRequirements) ==
    LET label == toLowerCase(field.label)
        has(t) == includes(label, t)
        maxLen == IF TruthyNum(field.maxLength) THEN field.maxLength[1] ELSE 500
        answer ==
            IF has(<<"w","h","y">>) /\ (has(<<"r","o","l","e">>) \/ has(<<"p","o","s","i","t","i","o","n">>)
                                  \/ has(<<"c","o","m","p","a","n","y">>) \/ has(<<"j","o","b">>))
            THEN truncate(WhyAnswer(profile, jobTitle), maxLen)
            ELSE IF has(<<"d","e","s","c","r","i","b","e">>) \/ has(<<"e","x","p","e","r","i","e","n","c","e"," ","w","i","t","h">>) \/ has(<<"t","e","l","l"," ","u","s">>)
            THEN LET relevantKeywords ==
                         extractKeywords(jobDescription \o <<" ">> \o OrEmpty(jobRequirements))
                     resumeExcerpt ==
                         findRelevantExcerpt(OrEmpty(profile.resumeText), relevantKeywords)
                 IN  truncate(OrElse(resumeExcerpt, DescribeAnswer(profile)), maxLen)
            ELSE IF has(<<"s","a","l","a","r","y">>) \/ has(<<"c","o","m","p","e","n","s","a","t","i","o","n">>) \/ has(<<"p","a","y">>)
            THEN SalaryAnswer
            ELSE IF has(<<"s","t","a","r","t">>) \/ has(<<"a","v","a","i","l","a","b","l","e">>) \/ has(<<"a","v","a","i","l","a","b","i","l","i","t","y">>)
            THEN StartAnswer
            ELSE IF has(<<"c","o","v","e","r"," ","l","e","t","t","e","r">>) \/ has(<<"a","d","d","i","t","i","o","n","a","l">>)
            THEN truncate(CoverLetterAnswer(profile, jobTitle), maxLen)
            ELSE truncate(GenericAnswer(profile), maxLen)
    IN  FieldAnswer(field.fieldId, answer, "llm", 70)

\* ------------------------------------------------------------------------
\* Match scoring
\* ------------------------------------------------------------------------
\* the required certifications some profile certification contains or is
\* contained in, both lowercased and trimmed
MatchedRequired(profile, jobCertsRequired) ==
    LET lowerTrim(c) == trim(toLowerCase(c))
        isMatched(req) ==
            \E i \in 1..Len(profile.certifications) :
                LET pc == lowerTrim(profile.certifications[i])
                IN  includes(pc, lowerTrim(req)) \/ includes(lowerTrim(req), pc)
    IN  filter(jobCertsRequired, [i \in DOMAIN jobCertsRequired |-> isMatched(jobCertsRequired[i])])

\* the number of keywords of the job description found in the profile
KeywordOverlap(profile, descKeywords) ==
    LET profileKeywords ==
            extractKeywords(OrEmpty(profile.resumeText) \o <<" ">>
                            \o join(profile.certifications, <<" ">>) \o <<" ">>
                            \o join(profile.skills, <<" ">>))
    IN  Cardinality({i \in 1..Len(descKeywords) :
                        \E j \in 1..Len(profileKeywords) :
                            profileKeywords[j] = descKeywords[i]})

\* computeMatchScore with the two travel credits exchanged
computeMatchScore_travelSwapped(profile, jobCertsRequired, jobDescription, jobCategory) ==
    LET n == Len(jobCertsRequired)
        m == Len(MatchedRequired(profile, jobCertsRequired))
        descKeywords == extractKeywords(jobDescription)
        k == MaxOf(Len(descKeywords), 2)
        d == 2 * MaxOf(n, 1) * k
        certs == IF n > 0 THEN (40 * m * d) \div n ELSE 20 * d
        experience == (25 * MinOf(profile.yearsExperience, 10) * d) \div 10
        keywords == IF descKeywords = <<>> THEN 0
                    ELSE (20 * MinOf(2 * KeywordOverlap(profile, descKeywords), k) * d) \div k
        travel == IF profile.willingToTravel THEN 6 * d ELSE 15 * d
    IN  RoundDiv(MinOf(certs + experience + keywords + travel, 100 * d), d)

\* computeMatchScore with the partial certification credit given whenever no
\* required certification is matched
computeMatchScore_partialCredit(profile, jobCertsRequired, jobDescription, jobCategory) ==
    LET n == Len(jobCertsRequired)
        m == Len(MatchedRequired(profile, jobCertsRequired))
        descKeywords == extractKeywords(jobDescription)
        k == MaxOf(Len(descKeywords), 2)
        d == 2 * MaxOf(n, 1) * k
        certs == IF m > 0 THEN (40 * m * d) \div n ELSE 20 * d
        experience == (25 * MinOf(profile.yearsExperience, 10) * d) \div 10
        keywords == IF descKeywords = <<>> THEN 0
                    ELSE (20 * MinOf(2 * KeywordOverlap(profile, descKeywords), k) * d) \div k
        travel == IF profile.willingToTravel THEN 15 * d ELSE 6 * d
    IN  RoundDiv(MinOf(certs + experience + keywords + travel, 100 * d), d)

\* the four parts are added as multiples of 1/d, d = 2 * max(n, 1) * k, so
\* that every quotient of the code is exact:
\*   (matched.length / jobCertsRequired.length) * 40, or 40 * 0.5
\*   Math.min(yearsExperience / 10, 1.0) * 25
\*   Math.min(overlap / Math.max(descKeywords.length * 0.5, 1), 1.0) * 20
\*   15, or 15 * 0.4
computeMatchScore(profile, jobCertsRequired, jobDescription, jobCategory) ==
    LET n == Len(jobCertsRequired)
        m == Len(MatchedRequired(profile, jobCertsRequired))
        descKeywords == extractKeywords(jobDescription)
        k == MaxOf(Len(descKeywords), 2)
        d == 2 * MaxOf(n, 1) * k
        certs == IF n > 0 THEN (40 * m * d) \div n ELSE 20 * d
        experience == (25 * MinOf(profile.yearsExperience, 10) * d) \div 10
        keywords == IF descKeywords = <<>> THEN 0
                    ELSE (20 * MinOf(2 * KeywordOverlap(profile, descKeywords), k) * d) \div k
        travel == IF profile.willingToTravel THEN 15 * d ELSE 6 * d
    IN  RoundDiv(MinOf(certs + experience + keywords + travel, 100 * d), d)

\* ------------------------------------------------------------------------
\* Default ATS field sets per platform
\* ------------------------------------------------------------------------
ATSField(fieldId, label, type, required, options, maxLength) ==
    [fieldId |-> fieldId, label |-> label, type |-> type, required |-> required,
     options |-> options, maxLength |-> maxLength]

Str_EmailAddress == <<"E","m","a","i","l"," ","A","d","d","r","e","s","s">>
Str_WhyInterested == <<"W","h","y"," ","a","r","e"," ","y","o","u"," ","i","n","t","e","r",
          "e","s","t","e","d"," ","i","n"," ","t","h","i","s"," ","r","o","l",
          "e","?">>
Str_DescribeExperience == <<"D","e","s","c","r","i","b","e"," ","y","o","u","r"," ","r","e","l",
          "e","v","a","n","t"," ","e","x","p","e","r","i","e","n","c","e">>
Str_YearsOfExperience == <<"Y","e","a","r","s"," ","o","f"," ","E","x","p","e","r","i","e","n",
          "c","e">>
Str_Certifications == <<"C","e","r","t","i","f","i","c","a","t","i","o","n","s">>
Str_Resume == <<"R","e","s","u","m","e">>
YesNo == Some(<<Str_Yes, Str_No>>)

common == <<
    ATSField("first_name", <<"F","i","r","s","t"," ","N","a","m","e">>, "text", TRUE, Null, Null),
    ATSField("last_name", <<"L","a","s","t"," ","N","a","m","e">>, "text", TRUE, Null, Null),
    ATSField("email", Str_EmailAddress, "text", TRUE, Null, Null),
    ATSField("phone", <<"P","h","o","n","e"," ","N","u","m","b","e","r">>, "text", TRUE, Null, Null),
    ATSField("location", <<"L","o","c","a","t","i","o","n">>, "text", FALSE, Null, Null) >>

platformSpecific ==
    [workday |-> common \o <<
        ATSField("years_experience", <<"T","o","t","a","l"," ","Y","e","a","r","s"," ","o","f"," ","E","x",
          "p","e","r","i","e","n","c","e">>, "number", TRUE, Null, Null),
        ATSField("certifications", <<"L","i","c","e","n","s","e","s"," ","&"," ","C","e","r","t","i","f",
          "i","c","a","t","i","o","n","s">>, "textarea", FALSE, Null, Null),
        ATSField("authorized_to_work", <<"A","r","e"," ","y","o","u"," ","a","u","t","h","o","r","i","z","e",
          "d"," ","t","o"," ","w","o","r","k"," ","i","n"," ","t","h","e"," ",
          "U","S","?">>,
                 "select", TRUE, YesNo, Null),
        ATSField("willing_to_relocate", <<"W","i","l","l","i","n","g"," ","t","o"," ","r","e","l","o","c","a",
          "t","e","?">>, "select", FALSE, YesNo, Null),
        ATSField("q_why", Str_WhyInterested, "textarea", FALSE, Null, Some(500)) >>,
     greenhouse |-> common \o <<
        ATSField("resume", Str_Resume, "file", TRUE, Null, Null),
        ATSField("cover_letter_field", <<"C","o","v","e","r"," ","L","e","t","t","e","r">>, "textarea", FALSE, Null, Some(1000)),
        ATSField("linkedin", <<"L","i","n","k","e","d","I","n"," ","U","R","L">>, "text", FALSE, Null, Null),
        ATSField("q_experience", Str_DescribeExperience, "textarea", FALSE, Null, Some(500)) >>,
     lever |-> common \o <<
        ATSField("current_title", <<"C","u","r","r","e","n","t"," ","T","i","t","l","e">>, "text", FALSE, Null, Null),
        ATSField("resume", Str_Resume, "file", TRUE, Null, Null),
        ATSField("q_why", <<"W","h","y"," ","d","o"," ","y","o","u"," ","w","a","n","t"," ","t",
          "o"," ","w","o","r","k"," ","h","e","r","e","?">>, "textarea", FALSE, Null, Some(400)),
        ATSField("q_salary", <<"S","a","l","a","r","y"," ","E","x","p","e","c","t","a","t","i","o",
          "n","s">>, "text", FALSE, Null, Null),
        ATSField("q_start", <<"A","v","a","i","l","a","b","l","e"," ","S","t","a","r","t"," ","D",
          "a","t","e">>, "text", FALSE, Null, Null) >>,
     icims |-> common \o <<
        ATSField("years_experience", Str_YearsOfExperience, "select", TRUE,
                 Some(<<<<"0","-","1"," ","y","e","a","r","s">>, <<"2","-","4"," ","y","e","a","r","s">>, <<"5","-","7"," ","y","e","a","r","s">>,
                        <<"8","-","1","0"," ","y","e","a","r","s">>, <<"1","0","+"," ","y","e","a","r","s">>>>), Null),
        ATSField("certifications", Str_Certifications, "textarea", FALSE, Null, Null),
        ATSField("q_experience", <<"T","e","l","l"," ","u","s"," ","a","b","o","u","t"," ","y","o","u",
          "r"," ","e","x","p","e","r","i","e","n","c","e"," ","i","n"," ","t",
          "h","i","s"," ","f","i","e","l","d">>,
                 "textarea", FALSE, Null, Some(600)) >>,
     generic |-> common \o <<
        ATSField("years_experience", Str_YearsOfExperience, "number", FALSE, Null, Null),
        ATSField("certifications", Str_Certifications, "textarea", FALSE, Null, Null),
        ATSField("q_why", Str_WhyInterested, "textarea", FALSE, Null, Some(500)),
        ATSField("q_experience", Str_DescribeExperience, "textarea", FALSE, Null, Some(500)) >>]

\* platformSpecific is an object literal: a lookup of a name it does not
\* define goes on to Object.prototype, whose members (functions, and the
\* prototype itself for __proto__) are truthy and are not arrays
ObjectPrototypeNames ==
    {"constructor", "toString", "toLocaleString", "valueOf", "hasOwnProperty",
     "isPrototypeOf", "propertyIsEnumerable", "__proto__"}

InheritedMember == <<[inherited |-> "Object.prototype"]>>

\* platformSpecific[platform] || platformSpecific.generic
getDefaultATSFields(platform) ==
    IF platform \in DOMAIN platformSpecific THEN platformSpecific[platform]
    ELSE IF platform \in ObjectPrototypeNames THEN InheritedMember
    ELSE platformSpecific.generic

\* ------------------------------------------------------------------------
\* Main pipeline
\* ------------------------------------------------------------------------
Quoted(label) == <<"\"">> \o label \o <<"\"">>

LowConfidenceWarning(label) ==
    Quoted(label) \o <<" ","m","a","y"," ","n","e","e","d"," ","m","a","n","u","a","l"," ",
          "r","e","v","i","e","w"," ",EmDash," ","l","o","w"," ","c","o","n",
          "f","i","d","e","n","c","e"," ","m","a","t","c","h",".">>

NotFilledWarning(label) ==
    Quoted(label) \o <<" ","c","o","u","l","d"," ","n","o","t"," ","b","e"," ","a","u","t",
          "o","-","f","i","l","l","e","d"," ",EmDash," ","p","l","e","a","s",
          "e"," ","c","o","m","p","l","e","t","e"," ","m","a","n","u","a","l",
          "l","y",".">>

LowMatchWarning ==
    <<"L","o","w"," ","m","a","t","c","h"," ","s","c","o","r","e"," ",
          EmDash," ","t","h","i","s"," ","r","o","l","e"," ","m","a","y"," ",
          "r","e","q","u","i","r","e"," ","c","e","r","t","i","f","i","c","a",
          "t","i","o","n","s"," ","o","r"," ","e","x","p","e","r","i","e","n",
          "c","e"," ","y","o","u"," ","h","a","v","e","n","'","t"," ","l","i",
          "s","t","e","d",".">>

Str_MissingCertifications == <<"M","i","s","s","i","n","g"," ","c","e","r","t","i","f","i","c","a",
          "t","i","o","n","s",":"," ">>

\* FillField without the warning for a low-confidence template answer
FillField_noWarning(field, profile, job) ==
    LET Pushed(templateAnswer) ==
            IF templateAnswer # Null /\ templateAnswer[1].confidence >= 70
            THEN [fields |-> <<templateAnswer[1]>>, warnings |-> <<>>]
            ELSE IF isScreeningQuestion(field)
            THEN [fields |-> <<generateScreeningAnswer(field, profile, job.title,
                                   job.description, job.requirements)>>,
                  warnings |-> <<>>]
            ELSE IF templateAnswer # Null
            THEN [fields |-> <<templateAnswer[1]>>, warnings |-> <<>>]
            ELSE IF field.required
            THEN [fields |-> <<FieldAnswer(field.fieldId, <<>>, "template", 0)>>,
                  warnings |-> <<NotFilledWarning(field.label)>>]
            ELSE [fields |-> <<>>, warnings |-> <<>>]
    IN  Pushed(tryTemplateMatch(field, profile))

\* one iteration of the loop over fieldsToFill: the answers and the warnings
\* it pushes
FillField(field, profile, job) ==
    LET Pushed(templateAnswer) ==
            IF templateAnswer # Null /\ templateAnswer[1].confidence >= 70
            THEN [fields |-> <<templateAnswer[1]>>, warnings |-> <<>>]
            ELSE IF isScreeningQuestion(field)
            THEN [fields |-> <<generateScreeningAnswer(field, profile, job.title,
                                   job.description, job.requirements)>>,
                  warnings |-> <<>>]
            ELSE IF templateAnswer # Null
            THEN [fields |-> <<templateAnswer[1]>>,
                  warnings |-> IF templateAnswer[1].confidence < 50
                               THEN <<LowConfidenceWarning(field.label)>> ELSE <<>>]
            ELSE IF field.required
            THEN [fields |-> <<FieldAnswer(field.fieldId, <<>>, "template", 0)>>,
                  warnings |-> <<NotFilledWarning(field.label)>>]
            ELSE [fields |-> <<>>, warnings |-> <<>>]
    IN  Pushed(tryTemplateMatch(field, profile))

\* the loop over fieldsToFill
RECURSIVE FillFields(_, _, _)
FillFields(fieldsToFill, profile, job) ==
    IF fieldsToFill = <<>> THEN [fields |-> <<>>, warnings |-> <<>>]
    ELSE LET Both(first, rest) ==
                 [fields |-> first.fields \o rest.fields,
                  warnings |-> first.warnings \o rest.warnings]
         IN  Both(FillField(Head(fieldsToFill), profile, job),
                  FillFields(Tail(fieldsToFill), profile, job))

\* the required certifications no profile certification contains or is
\* contained in, both lowercased
MissingCerts(profile, jobCerts) ==
    LET isMissing(req) ==
            ~\E i \in 1..Len(profile.certifications) :
                LET pc == toLowerCase(profile.certifications[i])
                IN  includes(pc, toLowerCase(req)) \/ includes(toLowerCase(req), pc)
    IN  filter(jobCerts, [i \in DOMAIN jobCerts |-> isMissing(jobCerts[i])])

\* for (const field of fieldsToFill) on a value that is not iterable
TypeError == [threw |-> "TypeError: fieldsToFill is not iterable"]

\* job.atsType || "generic"
PlatformOf(job) ==
    IF job.atsType = Null \/ job.atsType = Some("") THEN "generic" ELSE job.atsType[1]

\* (job.certRequired || "").split(",").filter(Boolean).map((c) => c.trim())
JobCerts(job) ==
    LET nonEmpty(c) == c # <<>>
        parts == split(OrEmpty(job.certRequired), ",")
        certList == filter(parts, [i \in DOMAIN parts |-> nonEmpty(parts[i])])
    IN  [i \in 1..Len(certList) |-> trim(certList[i])]

\* the locals of the function (atsType, jobCerts, matchScore, fieldsToFill,
\* the fields and warnings of the loop, missing) are the parameters of
\* Started, Looped and Assembled
generateApplicationDraft(profile, job, atsFields, clock) ==
    LET coverLetter ==
            generateScreeningAnswer(
                ATSField("cover_letter", <<"C","o","v","e","r"," ","l","e","t","t","e","r">>, "textarea", FALSE, Null, Some(800)),
                profile, job.title, job.description, job.requirements).value
        Assembled(atsType, jobCerts, matchScore, filled, missing) ==
            [jobId |-> job.id, jobTitle |-> job.title, company |-> job.company,
             atsType |-> atsType, fields |-> filled.fields, coverLetter |-> coverLetter,
             matchScore |-> matchScore,
             warnings |-> filled.warnings
                          \o (IF matchScore < 40 THEN <<LowMatchWarning>> ELSE <<>>)
                          \o (IF jobCerts # <<>> /\ missing # <<>>
                              THEN <<Str_MissingCertifications \o join(missing, <<",", " ">>)>>
                              ELSE <<>>),
             generatedAt |-> clock]
        Looped(atsType, jobCerts, fieldsToFill) ==
            IF fieldsToFill = InheritedMember THEN TypeError
            ELSE Assembled(atsType, jobCerts,
                           computeMatchScore(profile, jobCerts, job.description, job.category),
                           FillFields(fieldsToFill, profile, job),
                           MissingCerts(profile, jobCerts))
        Started(atsType) ==
            Looped(atsType, JobCerts(job),
                   IF atsFields # Null THEN atsFields[1]
                   ELSE getDefaultATSFields(atsType))
    IN  Started(PlatformOf(job))
\* ======== end of ats-mapper.ts ========

\* ------------------------------------------------------------------------
\* Bounded inputs
\* ------------------------------------------------------------------------
MaxYears == 5
MaxMinExperience == 2
MaxCandidates == 3
MaxUnitYears == 16
MaxUnitMinExperience == 6
MaxWeeks == 1

\* the wall clock at the start, in hours
Now0 == 200 * HoursPerDay

At(name) == [latitude |-> Some(GeoPoints[name][1]), longitude |-> Some(GeoPoints[name][2])]
Nowhere == [latitude |-> Null, longitude |-> Null]
Place(label, coords) == [location |-> label, latitude |-> coords.latitude,
                         longitude |-> coords.longitude]

CandidatePlaces == {
    Place(Some(Str_HoustonTX), At("Houston")),
    Place(Some(Str_PasadenaTX), At("Pasadena")),
    Place(Some(Str_KatyTX), At("Katy")),
    Place(Some(Str_CollegeStationTX), At("CollegeStation")),
    Place(Some(Str_DallasTX), At("Dallas")),
    Place(Some(Str_GreenwichUK), At("Greenwich")),
    Place(Some(Str_HoustonTX), Nowhere),
    Place(Some(Str_HoustonOnly), Nowhere),
    Place(Some(Str_AustinTexas), Nowhere),
    Place(Some(Str_GreenwichUK), Nowhere),
    Place(Some(Str_StPaulMN), Nowhere),
    Place(Null, Nowhere) }

CriteriaPlaces == {
    Place(Some(Str_HoustonTX), At("Houston")),
    Place(Some(Str_HoustonTX), Nowhere),
    Place(Some(Str_LondonUK), At("Greenwich")),
    Place(Some(Str_StLouisMO), Nowhere),
    Place(Null, Nowhere) }

Radii == {25, 100, 250}

Phones == {Null, Some(<<>>), Some(Str_PhoneNumber)}

CandidateCertLists == {
    <<>>,
    <<Str_OSHA_30, Str_NFPA_70E>>,
    <<Str_OSHA_Dash_30, Str_NFPA_Dash_70E>>,
    <<Str_NFPA_70E_ArcFlash, Str_osha30>>,
    <<Str_OSHA_30>>,
    <<Str_NFPA_Dash_70E, Str_CPR>>,
    <<Str_CPR>>,
    <<Str_CPR, Str_OSHA_10>> }

RequiredCertLists == {
    <<>>,
    <<Str_OSHA_30>>,
    <<Str_OSHA_30, Str_NFPA_70E>>,
    <<Str_OSHA_30, Str_NFPA_70E, Str_CPR>> }

\* days between lastActive and the start of the run
DaysAgo == {0, 10, 45, 120, 200}

CandidateData(id, ph, pl, y, w, o, cs, d) ==
    [profileId |-> id, userId |-> "user-1", name |-> "John Martinez",
     phone |-> ph, email |-> "john@example.com",
     location |-> pl.location, latitude |-> pl.latitude, longitude |-> pl.longitude,
     yearsExperience |-> y, willingToTravel |-> w, smsOptIn |-> o,
     certifications |-> cs, lastActive |-> Now0 - d * HoursPerDay]

PingTargetCriteria(rc, pl, r, m) ==
    [requiredCerts |-> rc, location |-> pl.location, latitude |-> pl.latitude,
     longitude |-> pl.longitude, radiusMiles |-> r, minExperience |-> m]

\* pairs <<candidate certifications, required certifications>> of the
\* scoreCandidate calls: no requirement, none held, one of two, all (fuzzy)
CertCases == {
    << <<>>, <<>> >>,
    << <<Str_CPR>>, <<Str_OSHA_30, Str_NFPA_70E>> >>,
    << <<Str_OSHA_30>>, <<Str_OSHA_30, Str_NFPA_70E>> >>,
    << <<Str_OSHA_Dash_30, Str_NFPA_Dash_70E>>, <<Str_OSHA_30, Str_NFPA_70E>> >> }

\* triples <<candidate place, target place, radius>> of the scoreCandidate
\* calls
GeoCases == {
    <<Place(Some(Str_HoustonTX), At("Houston")), Place(Some(Str_HoustonTX), At("Houston")), 100>>,
    <<Place(Some(Str_KatyTX), At("Katy")), Place(Some(Str_HoustonTX), At("Houston")), 100>>,
    <<Place(Some(Str_KatyTX), At("Katy")), Place(Some(Str_HoustonTX), At("Houston")), 25>>,
    <<Place(Some(Str_CollegeStationTX), At("CollegeStation")), Place(Some(Str_HoustonTX), At("Houston")), 100>>,
    <<Place(Some(Str_DallasTX), At("Dallas")), Place(Some(Str_HoustonTX), At("Houston")), 250>>,
    <<Place(Some(Str_DallasTX), At("Dallas")), Place(Some(Str_HoustonTX), At("Houston")), 100>>,
    <<Place(Some(Str_HoustonOnly), Nowhere), Place(Some(Str_HoustonTX), Nowhere), 100>>,
    <<Place(Some(Str_AustinTexas), Nowhere), Place(Some(Str_HoustonTX), Nowhere), 100>>,
    <<Place(Null, Nowhere), Place(Some(Str_HoustonTX), At("Houston")), 100>>,
    <<Place(Some(Str_GreenwichUK), At("Greenwich")), Place(Some(Str_LondonUK), At("Greenwich")), 100>> }

\* the <<candidate, criteria>> pairs scoreCandidate is called with
ScoreInputs ==
    { << CandidateData("test-1", ph, g[1], y, w, o, cc[1], d),
         PingTargetCriteria(cc[2], g[2], g[3], m) >> :
        ph \in Phones, o \in BOOLEAN, w \in BOOLEAN, cc \in CertCases,
        g \in GeoCases, y \in 0..MaxYears, m \in 0..MaxMinExperience,
        d \in DaysAgo }

\* calls outside the caller's contract: negative years, negative radius
ContractViolations ==
    { << CandidateData("test-1", Some(Str_PhoneNumber),
                       Place(Some(Str_HoustonTX), At("Houston")), y, FALSE, TRUE,
                       <<Str_OSHA_30, Str_NFPA_70E>>, 0),
         PingTargetCriteria(<<Str_OSHA_30, Str_NFPA_70E>>,
                            Place(Some(Str_HoustonTX), At("Houston")), r, m) >> :
        y \in {-1, MaxYears}, r \in {-1, 100}, m \in {0, MaxMinExperience} }

\* the candidates rankCandidates is called with
RankPool == {
    CandidateData("high", Some(Str_PhoneNumber), Place(Some(Str_HoustonTX), At("Houston")),
                  5, TRUE, TRUE, <<Str_OSHA_30, Str_NFPA_70E>>, 0),
    CandidateData("mid", Some(Str_PhoneNumber), Place(Some(Str_HoustonTX), At("Houston")),
                  5, TRUE, TRUE, <<Str_OSHA_30>>, 0),
    CandidateData("low", Some(Str_PhoneNumber), Place(Some(Str_HoustonTX), At("Houston")),
                  1, TRUE, TRUE, <<>>, 0),
    CandidateData("floor", Some(Str_PhoneNumber), Place(Some(Str_DallasTX), At("Dallas")),
                  1, FALSE, TRUE, <<>>, 200),
    CandidateData("no-phone", Null, Place(Some(Str_HoustonTX), At("Houston")),
                  5, TRUE, TRUE, <<Str_OSHA_30, Str_NFPA_70E>>, 0),
    CandidateData("no-optin", Some(Str_PhoneNumber), Place(Some(Str_KatyTX), At("Katy")),
                  1, TRUE, FALSE, <<>>, 0) }

\* the certification names certsMatch is called with
CertNames == {Str_OSHA_30, Str_NFPA_70E, Str_OSHA_Dash_30, Str_NFPA_Dash_70E,
              Str_NFPA_70E_ArcFlash, Str_osha30, Str_OSHA_10, Str_CPR}

RankCriteria == {
    PingTargetCriteria(<<Str_OSHA_30, Str_NFPA_70E>>, Place(Some(Str_HoustonTX), At("Houston")), 100, m) :
        m \in {0, MaxMinExperience} }

\* the sequences over S of length at most n
RECURSIVE SeqsUpTo(_, _)
SeqsUpTo(S, n) ==
    IF n = 0 THEN { <<>> }
    ELSE LET shorter == SeqsUpTo(S, n - 1)
         IN  shorter \cup { Append(q, x) : q \in shorter, x \in S }

\* ======== ats-mapper.ts inputs ========
\* ------------------------------------------------------------------------
\* Inputs of the ATS mapper
\* ------------------------------------------------------------------------
MaxProfileYears == 11
MaxFields == 2

Str_MariaGonzalez == <<"M","a","r","i","a"," ","G","o","n","z","a","l","e","z">>
Str_MariaEmail == <<"m","a","r","i","a","@","e","x","a","m","p","l","e",".","c","o",
          "m">>
Str_MariaPhone == <<"+","1","8","3","2","5","5","5","9","8","7","6">>
Str_MariaResume ==
    <<"8"," ","y","e","a","r","s"," ","e","x","p","e","r","i","e","n","c",
          "e"," ","i","n"," ","e","l","e","c","t","r","i","c","a","l"," ","i",
          "n","s","t","a","l","l","a","t","i","o","n"," ","f","o","r"," ","d",
          "a","t","a"," ","c","e","n","t","e","r"," ","e","n","v","i","r","o",
          "n","m","e","n","t","s","."," ","L","e","d"," ","c","r","e","w","s",
          " ","o","f"," ","3","0","+"," ","o","n"," ","h","y","p","e","r","s",
          "c","a","l","e"," ","b","u","i","l","d","s","."," ","C","e","r","t",
          "i","f","i","e","d"," ","O","S","H","A"," ","3","0",","," ","N","F",
          "P","A"," ","7","0","E",","," ","J","o","u","r","n","e","y","m","a",
          "n"," ","E","l","e","c","t","r","i","c","i","a","n",".">>
Str_MariaHeadline == <<"S","e","n","i","o","r"," ","E","l","e","c","t","r","i","c","i","a",
          "n"," ","-"," ","D","a","t","a"," ","C","e","n","t","e","r"," ","S",
          "p","e","c","i","a","l","i","s","t">>
Str_MariaSummary ==
    <<"M","i","s","s","i","o","n","-","c","r","i","t","i","c","a","l"," ",
          "e","l","e","c","t","r","i","c","a","l"," ","p","r","o","f","e","s",
          "s","i","o","n","a","l"," ","w","i","t","h"," ","8"," ","y","e","a",
          "r","s"," ","o","n"," ","h","y","p","e","r","s","c","a","l","e"," ",
          "b","u","i","l","d","s",".">>
Str_CompTIA == <<"C","o","m","p","T","I","A"," ","A","+">>
MariaCerts == <<Str_OSHA_30, Str_NFPA_70E, Str_CompTIA>>
MariaSkills == <<<<"m","e","d","i","u","m"," ","v","o","l","t","a","g","e">>, <<"c","o","n","d","u","i","t"," ","i","n","s","t","a","l","l","a","t",
          "i","o","n">>, <<"B","M","S">>>>

Str_JobTitle == <<"S","e","n","i","o","r"," ","E","l","e","c","t","r","i","c","a","l",
          " ","F","o","r","e","m","a","n"," ","-"," ","D","a","t","a"," ","C",
          "e","n","t","e","r">>
Str_JobDescription ==
    <<"L","e","a","d"," ","e","l","e","c","t","r","i","c","a","l"," ","i",
          "n","s","t","a","l","l","a","t","i","o","n"," ","f","o","r"," ","a",
          " ","2","0","0","M","W"," ","h","y","p","e","r","s","c","a","l","e",
          " ","d","a","t","a"," ","c","e","n","t","e","r"," ","c","a","m","p",
          "u","s","."," ","O","v","e","r","s","e","e"," ","c","r","e","w"," ",
          "o","f"," ","4","0","+"," ","e","l","e","c","t","r","i","c","i","a",
          "n","s"," ","o","n"," ","m","e","d","i","u","m","/","h","i","g","h",
          " ","v","o","l","t","a","g","e"," ","s","w","i","t","c","h","g","e",
          "a","r",","," ","U","P","S"," ","s","y","s","t","e","m","s",","," ",
          "a","n","d"," ","P","D","U"," ","i","n","s","t","a","l","l","a","t",
          "i","o","n","s",".">>
Str_JobRequirements ==
    <<"O","S","H","A"," ","3","0",","," ","N","F","P","A"," ","7","0","E",
          ","," ","J","o","u","r","n","e","y","m","a","n"," ","L","i","c","e",
          "n","s","e",","," ","1","0","+"," ","y","e","a","r","s"," ","d","a",
          "t","a"," ","c","e","n","t","e","r"," ","e","x","p","e","r","i","e",
          "n","c","e">>
Str_electrical == <<"e","l","e","c","t","r","i","c","a","l">>

CandidateProfile(contact, resumeText, y, certs, skills, w) ==
    [name |-> contact.name, email |-> contact.email, phone |-> contact.phone,
     location |-> contact.location, resumeText |-> resumeText,
     yearsExperience |-> y, certifications |-> certs, skills |-> skills,
     willingToTravel |-> w, headline |-> contact.headline,
     summary |-> contact.summary]

\* the test suite's profile, a profile with a one-word name and nothing
\* optional, and a profile with empty name and email
Contacts == {
    [name |-> Str_MariaGonzalez, email |-> Str_MariaEmail,
     phone |-> Some(Str_MariaPhone), location |-> Some(Str_KatyTX),
     headline |-> Some(Str_MariaHeadline), summary |-> Some(Str_MariaSummary)],
    [name |-> <<"C","h","e","r">>, email |-> <<"c","h","e","r","@","e","x","a","m","p","l","e",".","c","o","m">>, phone |-> Null,
     location |-> Null, headline |-> Null, summary |-> Null],
    [name |-> <<>>, email |-> <<>>, phone |-> Some(<<>>),
     location |-> Some(Str_HoustonOnly), headline |-> Some(<<>>),
     summary |-> Some(<<>>)] }

Job(certRequired, atsType, description) ==
    [id |-> "job-1", title |-> Str_JobTitle, company |-> "Rosendin Electric",
     description |-> description, requirements |-> Some(Str_JobRequirements),
     certRequired |-> certRequired, atsType |-> atsType, category |-> "electrical"]

\* pairs <<profile certifications, job.certRequired>>
DraftCertCases == {
    << MariaCerts, Some(<<"O","S","H","A"," ","3","0",",","N","F","P","A"," ","7","0","E">>) >>,
    << <<Str_OSHA_10>>, Some(<<"O","S","H","A"," ","3","0",",","N","F","P","A"," ","7","0","E">>) >>,
    << <<Str_OSHA_Dash_30, Str_NFPA_70E>>, Some(<<"O","S","H","A"," ","3","0",","," ","N","F","P","A"," ","7","0",
          "E">>) >>,
    << <<>>, Some(<<"O","S","H","A"," ","3","0",",","N","F","P","A"," ","7","0","E">>) >>,
    << MariaCerts, Null >>,
    << <<>>, Some(<<>>) >> }

\* job.atsType: the five platforms, absent, empty and unrecognized
PlatformTags == {Some("workday"), Some("greenhouse"), Some("lever"), Some("icims"),
                 Some("generic"), Null, Some(""), Some("taleo"), Some("constructor")}

\* fields of explicit field lists
FieldPool == {
    ATSField("full_name", <<"F","u","l","l"," ","N","a","m","e">>, "text", TRUE, Null, Null),
    ATSField("work_email", <<"W","o","r","k"," ","E","m","a","i","l">>, "text", TRUE, Null, Null),
    ATSField("zip", <<"Z","I","P"," ","C","o","d","e">>, "text", TRUE, Null, Null),
    ATSField("headline", <<"H","e","a","d","l","i","n","e">>, "text", TRUE, Null, Null),
    ATSField("citizen", <<"U","S"," ","C","i","t","i","z","e","n">>, "select", TRUE, YesNo, Null),
    ATSField("clearance", <<"S","e","c","u","r","i","t","y"," ","C","l","e","a","r","a","n","c",
          "e">>, "select", TRUE,
             Some(<<<<"N","o","n","e">>, <<"S","e","c","r","e","t">>>>), Null),
    ATSField("shift", <<"P","r","e","f","e","r","r","e","d"," ","S","h","i","f","t">>, "text", FALSE, Null, Null),
    ATSField("q_explain", <<"E","x","p","l","a","i","n"," ","a","n","y"," ","g","a","p","s">>, "textarea", TRUE, Null, Some(40)),
    ATSField("years", Str_YearsOfExperience, "select", TRUE,
             Some(<<<<"0","-","1"," ","y","e","a","r","s">>, <<"2","-","4"," ","y","e","a","r","s">>, <<"5","+"," ","y","e","a","r","s">>>>), Null),
    ATSField("travel", <<"O","p","e","n"," ","t","o"," ","t","r","a","v","e","l","?">>, "select", FALSE, YesNo, Null) }

\* the <<profile, job, atsFields>> triples generateApplicationDraft is
\* called with: the default field list of every platform tag, and explicit
\* field lists
DraftInputs ==
    { << CandidateProfile(c, Some(Str_MariaResume), y, cc[1], MariaSkills, w),
         Job(cc[2], tag, Str_JobDescription), Null >> :
        c \in Contacts, cc \in DraftCertCases, tag \in PlatformTags,
        y \in {0, MaxProfileYears}, w \in BOOLEAN }
    \cup
    { << CandidateProfile(c, Null, y, <<>>, <<>>, w),
         Job(Null, Null, Str_JobDescription), Some(fs) >> :
        c \in Contacts, fs \in SeqsUpTo(FieldPool, MaxFields),
        y \in {3}, w \in BOOLEAN }

\* triples <<resumeText, skills, job description>>
KeywordCases == {
    << Null, <<>>, Str_JobDescription >>,
    << Null, <<Str_electrical>>, Str_electrical >>,
    << Null, <<<<"m","e","d","i","u","m"," ","v","o","l","t","a","g","e">>>>, Str_JobDescription >>,
    << Some(<<>>), MariaSkills, <<>> >>,
    << Some(Str_MariaResume), MariaSkills, Str_JobDescription >> }

\* pairs <<profile certifications, required certifications>>
MatchCertCases == {
    << <<>>, <<>> >>,
    << MariaCerts, <<>> >>,
    << MariaCerts, <<Str_OSHA_30, Str_NFPA_70E>> >>,
    << <<Str_OSHA_10>>, <<Str_OSHA_30, Str_NFPA_70E>> >>,
    << <<Str_OSHA_30>>, <<Str_OSHA_30, Str_NFPA_70E>> >>,
    << <<Str_OSHA_30>>, <<Str_OSHA_30, Str_NFPA_70E, Str_CPR>> >>,
    << <<Str_OSHA_Dash_30>>, <<Str_OSHA_30>> >>,
    << <<>>, <<Str_OSHA_30>> >> }

\* the <<profile, jobCertsRequired, jobDescription>> triples computeMatchScore
\* is called with
MatchInputs ==
    { << CandidateProfile(CHOOSE c \in Contacts : c.name = Str_MariaGonzalez,
                          kc[1], y, cc[1], kc[2], w),
         cc[2], kc[3] >> :
        cc \in MatchCertCases, kc \in KeywordCases,
        y \in 0..MaxProfileYears, w \in BOOLEAN }


\* fields of the six answer categories of generateScreeningAnswer:
\* motivation, experience, salary, start date, cover letter, generic
ScreeningFields == {
    ATSField("q_why", Str_WhyInterested, "textarea", FALSE, Null, Null),
    ATSField("q_experience", Str_DescribeExperience, "textarea", FALSE, Null, Null),
    ATSField("q_salary", <<"S","a","l","a","r","y"," ","E","x","p","e","c","t","a","t","i","o",
          "n","s">>, "text", FALSE, Null, Null),
    ATSField("q_start", <<"A","v","a","i","l","a","b","l","e"," ","S","t","a","r","t"," ","D",
          "a","t","e">>, "text", FALSE, Null, Null),
    ATSField("cover_letter_field", <<"C","o","v","e","r"," ","L","e","t","t","e","r">>, "textarea", FALSE, Null, Null),
    ATSField("q_explain", <<"E","x","p","l","a","i","n"," ","a","n","y"," ","g","a","p","s">>, "textarea", FALSE, Null, Null) }

\* field.maxLength: absent, 0, and lengths below and above the texts
MaxLengths == {Null, Some(0), Some(2), Some(3), Some(12), Some(60), Some(1000)}

\* the <<field, profile>> pairs generateScreeningAnswer is called with
ScreeningInputs ==
    { << [f EXCEPT !.maxLength = m],
         CandidateProfile(c, r, 8, MariaCerts, MariaSkills, w) >> :
        f \in ScreeningFields, m \in MaxLengths, c \in Contacts,
        r \in {Null, Some(Str_MariaResume)}, w \in BOOLEAN }

\* fields tryTemplateMatch is called with: labels that are a pattern key
\* (with a value and blank), labels that contain one, labels of choice
\* fields that match no key, the authorization labels, and no match
TemplateFields == {
    ATSField("email", Str_EmailAddress, "text", TRUE, Null, Null),
    ATSField("zip", <<"Z","I","P"," ","C","o","d","e">>, "text", TRUE, Null, Null),
    ATSField("work_email", <<"W","o","r","k"," ","E","m","a","i","l">>, "text", TRUE, Null, Null),
    ATSField("linkedin", <<"L","i","n","k","e","d","I","n"," ","U","R","L">>, "text", FALSE, Null, Null),
    ATSField("years", <<"H","o","w"," ","m","a","n","y"," ","y","e","a","r","s","?">>, "select", TRUE,
             Some(<<<<"0","-","1"," ","y","e","a","r","s">>, <<"2","-","4"," ","y","e","a","r","s">>, <<"5","+"," ","y","e","a","r","s">>>>), Null),
    ATSField("travel", <<"O","p","e","n"," ","t","o"," ","t","r","a","v","e","l","?">>, "select", FALSE, YesNo, Null),
    ATSField("relocate", <<"C","a","n"," ","y","o","u"," ","r","e","l","o","c","a","t","e",
          "?">>, "select", FALSE, YesNo, Null),
    ATSField("work_authorization", <<"W","o","r","k"," ","A","u","t","h","o","r","i","z","a","t","i","o",
          "n">>, "select", TRUE, YesNo, Null),
    ATSField("authorized_to_work", <<"A","r","e"," ","y","o","u"," ","a","u","t","h","o","r","i","z","e",
          "d"," ","t","o"," ","w","o","r","k"," ","i","n"," ","t","h","e"," ",
          "U","S","?">>,
             "select", TRUE, YesNo, Null),
    ATSField("citizen", <<"U","S"," ","C","i","t","i","z","e","n">>, "select", TRUE, YesNo, Null),
    ATSField("sponsorship", <<"R","e","q","u","i","r","e","s"," ","s","p","o","n","s","o","r","s",
          "h","i","p","?">>, "select", TRUE, YesNo, Null),
    ATSField("clearance", <<"S","e","c","u","r","i","t","y"," ","C","l","e","a","r","a","n","c",
          "e">>, "select", TRUE,
             Some(<<<<"N","o","n","e">>, <<"S","e","c","r","e","t">>>>), Null) }

\* the <<field, profile>> pairs tryTemplateMatch is called with
TemplateInputs ==
    { << f, CandidateProfile(c, Null, y, MariaCerts, MariaSkills, w) >> :
        f \in TemplateFields, c \in Contacts, y \in {0, 3, MaxProfileYears},
        w \in BOOLEAN }
\* ======== end of ats-mapper.ts inputs ========

\* ------------------------------------------------------------------------
\* State machine: calls of the functions of candidate-scorer.ts
\* ------------------------------------------------------------------------
VARIABLES
    now,      \* Date.now(), in hours
    pc,       \* "idle", or the function whose call has just returned
    args,     \* the arguments of that call
    locals,   \* scoreCandidate: its five sub-scores before rounding
    result,   \* the value the call returned
    db        \* the tables the route handlers read and write

vars == <<now, pc, args, locals, result, db>>

Init ==
    /\ now = Now0
    /\ pc = "idle"
    /\ args = <<>>
    /\ locals = <<>>
    /\ result = <<>>
    /\ db = <<>>

ScoreCertifications ==
    /\ pc = "idle"
    /\ \E cs \in CandidateCertLists, rc \in RequiredCertLists :
        /\ args' = <<cs, rc>>
        /\ result' = scoreCertifications(cs, rc)
    /\ pc' = "scoreCertifications"
    /\ UNCHANGED <<now, locals, db>>

ScoreProximity ==
    /\ pc = "idle"
    /\ \E cp \in CandidatePlaces, kp \in CriteriaPlaces, r \in Radii :
        LET c == CandidateData("test-1", Some(Str_PhoneNumber), cp, 0, FALSE, TRUE, <<>>, 0)
            k == PingTargetCriteria(<<>>, kp, r, 0)
        IN  /\ args' = <<c, k>>
            /\ result' = scoreProximity(c, k)
    /\ pc' = "scoreProximity"
    /\ UNCHANGED <<now, locals, db>>

ScoreExperience ==
    /\ pc = "idle"
    /\ \E y \in 0..MaxUnitYears, m \in 0..MaxUnitMinExperience :
        /\ args' = <<y, m>>
        /\ result' = scoreExperience(y, m)
    /\ pc' = "scoreExperience"
    /\ UNCHANGED <<now, locals, db>>

ScoreCandidate ==
    /\ pc = "idle"
    /\ \E in \in ScoreInputs \cup ContractViolations :
        /\ args' = in
        /\ locals' = SubScores(in[1], in[2], now)
        /\ result' = scoreCandidate(in[1], in[2], now)
    /\ pc' = "scoreCandidate"
    /\ UNCHANGED <<now, db>>

RankCandidates ==
    /\ pc = "idle"
    /\ \E cands \in SeqsUpTo(RankPool, MaxCandidates), k \in RankCriteria :
        /\ args' = <<cands, k>>
        /\ result' = rankCandidates(cands, k, now)
    /\ pc' = "rankCandidates"
    /\ UNCHANGED <<now, locals, db>>

EstimateMatchCount ==
    /\ pc = "idle"
    /\ \E cands \in SeqsUpTo(RankPool, MaxCandidates), k \in RankCriteria :
        /\ args' = <<cands, k>>
        /\ result' = estimateMatchCount(cands, k, now)
    /\ pc' = "estimateMatchCount"
    /\ UNCHANGED <<now, locals, db>>

\* one comparison of scoreCertifications: both names normalized, then matched
CertsMatch ==
    /\ pc = "idle"
    /\ \E a \in CertNames, b \in CertNames :
        /\ args' = <<a, b>>
        /\ result' = certsMatch(normalizeCert(a), normalizeCert(b))
    /\ pc' = "certsMatch"
    /\ UNCHANGED <<now, locals, db>>

\* ======== ats-mapper.ts calls ========
ComputeMatchScore ==
    /\ pc = "idle"
    /\ \E in \in MatchInputs :
        /\ args' = in
        /\ result' = computeMatchScore(in[1], in[2], in[3], "electrical")
    /\ pc' = "computeMatchScore"
    /\ UNCHANGED <<now, locals, db>>

GenerateApplicationDraft ==
    /\ pc = "idle"
    /\ \E in \in DraftInputs :
        /\ args' = in
        /\ locals' = IF in[3] # Null THEN in[3][1]
                     ELSE getDefaultATSFields(PlatformOf(in[2]))
        /\ result' = generateApplicationDraft(in[1], in[2], in[3], now)
    /\ pc' = "generateApplicationDraft"
    /\ UNCHANGED <<now, db>>


GenerateScreeningAnswer ==
    /\ pc = "idle"
    /\ \E in \in ScreeningInputs :
        /\ args' = in
        /\ result' = generateScreeningAnswer(in[1], in[2], Str_JobTitle,
                         Str_JobDescription, Some(Str_JobRequirements))
    /\ pc' = "generateScreeningAnswer"
    /\ UNCHANGED <<now, locals, db>>

TryTemplateMatch ==
    /\ pc = "idle"
    /\ \E in \in TemplateInputs :
        /\ args' = in
        /\ result' = tryTemplateMatch(in[1], in[2])
    /\ pc' = "tryTemplateMatch"
    /\ UNCHANGED <<now, locals, db>>
\* ======== end of ats-mapper.ts calls ========

Return ==
    /\ pc # "idle"
    /\ pc' = "idle"
    /\ args' = <<>>
    /\ locals' = <<>>
    /\ result' = <<>>
    /\ UNCHANGED <<now, db>>

\* a week passes between two calls
Tick ==
    /\ pc = "idle"
    /\ now < Now0 + MaxWeeks * 7 * HoursPerDay
    /\ now' = now + 7 * HoursPerDay
    /\ UNCHANGED <<pc, args, locals, result, db>>

Next ==
    \/ ScoreCertifications
    \/ ScoreProximity
    \/ ScoreExperience
    \/ ScoreCandidate
    \/ RankCandidates
    \/ EstimateMatchCount
    \/ CertsMatch
    \/ Return

Spec == Init /\ [][Next]_vars

\* scoreCandidate called at different times
NextClock ==
    \/ Tick
    \/ ScoreCandidate
    \/ Return

SpecClock == Init /\ [][NextClock]_vars

\* ======== ats-mapper.ts specification ========
\* the calls of the functions of ats-mapper.ts
NextATS ==
    \/ ComputeMatchScore
    \/ GenerateApplicationDraft
    \/ GenerateScreeningAnswer
    \/ TryTemplateMatch
    \/ Return

SpecATS == Init /\ [][NextATS]_vars

\* ======== end of ats-mapper.ts specification ========

\* ------------------------------------------------------------------------
\* Properties
\* ------------------------------------------------------------------------
Range(q) == {q[i] : i \in 1..Len(q)}

\* C1: in every result of scoreCandidate, smsOptIn = false makes the
\* candidate ineligible with the reason "No SMS opt-in consent", a null or
\* empty phone makes it ineligible with the reason "No phone number on
\* file", both reasons are present when both filters fail, and this holds
\* whatever the score is.
HardFiltersDisqualify ==
    pc = "scoreCandidate" =>
        LET c == args[1]
            noPhone == c.phone = Null \/ c.phone = Some(<<>>)
        IN  /\ ~c.smsOptIn =>
                ~result.eligible /\ NoSmsOptIn \in Range(result.disqualifyReasons)
            /\ noPhone =>
                ~result.eligible /\ NoPhone \in Range(result.disqualifyReasons)
            /\ (~c.smsOptIn /\ noPhone) =>
                {NoSmsOptIn, NoPhone} \subseteq Range(result.disqualifyReasons)

\* a candidate with no consent and an empty phone, scored 80 or more
HardFiltersWitness ==
    /\ pc = "scoreCandidate"
    /\ ~args[1].smsOptIn
    /\ args[1].phone = Some(<<>>)
    /\ result.score >= Pts(80)
    /\ ~result.eligible

\* C2: in every result of scoreCandidate, eligible is true exactly when
\* disqualifyReasons is empty and the reported total (breakdown.total) is at
\* least 25.
EligibleIffReportedTotal ==
    pc = "scoreCandidate" =>
        (result.eligible <=>
            (result.disqualifyReasons = <<>> /\ result.breakdown.total >= Pts(25)))

\* the caller's contract: years, minimum experience and radius not negative
WithinContract(candidate, criteria) ==
    /\ candidate.yearsExperience >= 0
    /\ criteria.minExperience >= 0
    /\ criteria.radiusMiles >= 0

\* C3: for inputs within the caller's contract, the breakdown returned by
\* scoreCandidate keeps every component within its cap (40, 25, 20, 10, 5)
\* and its total is the sum of the reported components, capped at 100.
BreakdownWithinCaps ==
    (pc = "scoreCandidate" /\ WithinContract(args[1], args[2])) =>
        LET b == result.breakdown
        IN  /\ 0 <= b.certScore /\ b.certScore <= Pts(40)
            /\ 0 <= b.proximityScore /\ b.proximityScore <= Pts(25)
            /\ 0 <= b.experienceScore /\ b.experienceScore <= Pts(20)
            /\ 0 <= b.freshnessScore /\ b.freshnessScore <= Pts(10)
            /\ 0 <= b.travelBonus /\ b.travelBonus <= Pts(5)
            /\ b.total = MinOf(b.certScore + b.proximityScore + b.experienceScore
                               + b.freshnessScore + b.travelBonus, Pts(100))

\* a willing candidate whose proximity sub-score 7.5 is reported as 8 and
\* whose travel bonus is 4
BreakdownWitness ==
    /\ pc = "scoreCandidate"
    /\ locals.proximityScore = 30
    /\ result.breakdown.proximityScore = Pts(8)
    /\ result.breakdown.travelBonus = Pts(4)

\* C4: the score returned by scoreCandidate is a whole number in 0..100 and
\* equals breakdown.total.
ScoreIsReportedTotal ==
    pc = "scoreCandidate" =>
        /\ result.score % Quarter = 0
        /\ 0 <= result.score /\ result.score <= Pts(100)
        /\ result.score = result.breakdown.total

\* the certification sub-score v for m of n required certifications matched
CertificationRule(m, n, v) ==
    /\ m = n => v = Pts(40)
    /\ m = 0 => v = 0
    /\ (0 < m /\ m < n) =>
        /\ v < Pts(40)
        /\ \E p \in 0..40 :
            /\ v = Pts(p)
            /\ -n < 2 * (p * n) - 72 * m
            /\ 2 * (p * n) - 72 * m <= n

HasCoordinates(x) == x.latitude # Null /\ x.longitude # Null

\* C6: a candidate whose coordinates are identical to the target's gets
\* proximity sub-score 25, whatever the coordinates and the labels are.
SameCoordinatesFullProximity ==
    (/\ pc = "scoreProximity"
     /\ HasCoordinates(args[1]) /\ HasCoordinates(args[2])
     /\ args[1].latitude = args[2].latitude
     /\ args[1].longitude = args[2].longitude) => result = Pts(25)

\* the step curve of the specification: nothing beyond the radius
StepCurve(d, radiusMiles) ==
    IF d > radiusMiles THEN 0
    ELSE IF d <= 25 THEN Pts(25)
    ELSE IF d <= 50 THEN Pts(20)
    ELSE IF d <= 100 THEN 50
    ELSE 25

\* C7: when scoreProximity takes the coordinate branch, its result is the
\* step curve on the distance, and 0 for every distance beyond radiusMiles,
\* radii below 100 miles included.
ProximityStepCurve ==
    (/\ pc = "scoreProximity"
     /\ TruthyNum(args[1].latitude) /\ TruthyNum(args[1].longitude)
     /\ TruthyNum(args[2].latitude) /\ TruthyNum(args[2].longitude)) =>
        result = StepCurve(haversineDistance(args[1].latitude[1], args[1].longitude[1],
                                             args[2].latitude[1], args[2].longitude[1]),
                           args[2].radiusMiles)

\* C8: of two candidates that differ only in willingToTravel and whose
\* proximity sub-score is below 25, the willing one has the strictly higher
\* travel bonus and the strictly higher total; an unwilling candidate has
\* travel bonus 0.
TravelWillingnessCompensates ==
    pc = "scoreCandidate" =>
        LET c == args[1]
            twin == scoreCandidate([c EXCEPT !.willingToTravel = ~@], args[2], now)
            willing == IF c.willingToTravel THEN result ELSE twin
            unwilling == IF c.willingToTravel THEN twin ELSE result
        IN  /\ unwilling.breakdown.travelBonus = 0
            /\ ~c.willingToTravel => locals.travelBonus = 0
            /\ locals.proximityScore < Pts(25) =>
                /\ willing.breakdown.travelBonus > unwilling.breakdown.travelBonus
                /\ willing.score > unwilling.score
                /\ willing.breakdown.total > unwilling.breakdown.total

\* a willing candidate 25 to 50 miles away: the bonus is a single point
TravelWitness ==
    /\ pc = "scoreCandidate"
    /\ args[1].willingToTravel
    /\ locals.proximityScore = Pts(20)
    /\ result.breakdown.travelBonus = Pts(1)

\* C9: for years of experience below the minimum, scoreExperience is
\* strictly positive, strictly below 20 and strictly below the value of the
\* logarithmic curve for the same years.
BelowMinimumPartialCredit ==
    (pc = "scoreExperience" /\ args[1] < args[2]) =>
        /\ result > 0
        /\ result < Pts(20)
        /\ result < (IF args[1] >= 15 THEN Pts(20) ELSE Pts(LogCurve[args[1] + 1]))

\* the number of indices of q that hold x
Count(q, x) == Cardinality({i \in 1..Len(q) : q[i] = x})

\* C10: rankCandidates returns one ScoredCandidate per input candidate,
\* disqualified ones included, no ineligible one before an eligible one, and
\* scores non-increasing among the eligible and among the ineligible.
RankedOrder ==
    pc = "rankCandidates" =>
        LET each == [i \in 1..Len(args[1]) |-> scoreCandidate(args[1][i], args[2], now)]
        IN  /\ Len(result) = Len(args[1])
            /\ \A x \in Range(each) \cup Range(result) : Count(result, x) = Count(each, x)
            /\ \A i, j \in 1..Len(result) :
                i < j =>
                    /\ ~(~result[i].eligible /\ result[j].eligible)
                    /\ result[i].eligible = result[j].eligible =>
                        result[i].score >= result[j].score

\* three candidates ranked, the input starting with an ineligible one that
\* outscores the eligible one that ends up first
RankedWitness ==
    /\ pc = "rankCandidates"
    /\ Len(result) = 3
    /\ ~scoreCandidate(args[1][1], args[2], now).eligible
    /\ result[1].eligible
    /\ ~result[3].eligible
    /\ result[3].score > result[1].score

\* C11: estimateMatchCount returns total = the number of input candidates,
\* eligible = the number of them scoreCandidate marks eligible, and topTier =
\* the number of eligible ones whose score is at least 70, so that
\* topTier <= eligible <= total.
MatchCounts ==
    pc = "estimateMatchCount" =>
        LET each == [i \in 1..Len(args[1]) |-> scoreCandidate(args[1][i], args[2], now)]
        IN  /\ result.total = Len(args[1])
            /\ result.eligible = Cardinality({i \in 1..Len(each) : each[i].eligible})
            /\ result.topTier =
                   Cardinality({i \in 1..Len(each) :
                                   each[i].eligible /\ each[i].score >= Pts(70)})
            /\ result.topTier <= result.eligible
            /\ result.eligible <= result.total

\* three candidates counted: one top-tier, one eligible below 70, and one
\* ineligible that scores 70 or more
MatchCountsWitness ==
    /\ pc = "estimateMatchCount"
    /\ result = [total |-> 3, eligible |-> 2, topTier |-> 1]
    /\ \E i \in 1..3 :
          LET s == scoreCandidate(args[1][i], args[2], now)
          IN  ~s.eligible /\ s.score >= Pts(70)

\* C12: every candidate with SMS consent and a phone number who matches all
\* of the (one or more) required certifications, has the same coordinates as
\* the target, has at least 5 years of experience and no fewer than the
\* criteria minimum, and was last active less than 7 days ago, scores at
\* least 80 and is eligible.
PerfectCandidateScoresHigh ==
    pc = "scoreCandidate" =>
        LET c == args[1]
            k == args[2]
        IN  (/\ c.smsOptIn
             /\ c.phone # Null /\ c.phone # Some(<<>>)
             /\ k.requiredCerts # <<>>
             /\ MatchedCount(c.certifications, k.requiredCerts) = Len(k.requiredCerts)
             /\ HasCoordinates(c) /\ HasCoordinates(k)
             /\ c.latitude = k.latitude /\ c.longitude = k.longitude
             /\ c.yearsExperience >= k.minExperience /\ c.yearsExperience >= 5
             /\ now - c.lastActive < 7 * HoursPerDay)
            => (result.score >= Pts(80) /\ result.eligible)

\* C14: scoreCandidate is a function of its explicit inputs: whenever it is
\* called, it returns what the same call returned at the start of the run
\* (same score, breakdown and eligibility).
ScoreIndependentOfCallTime ==
    pc = "scoreCandidate" => result = scoreCandidate(args[1], args[2], Now0)

\* C15: scoreCandidate returns no ScoredCandidate when the years of
\* experience or the radius are negative (it fails instead), so no such call
\* yields a negative component.
ContractViolationsFail ==
    (pc = "scoreCandidate" /\ (args[1].yearsExperience < 0 \/ args[2].radiusMiles < 0)) =>
        /\ "breakdown" \notin DOMAIN result
        /\ "score" \notin DOMAIN result

\* C13: the matching rule is symmetric (a matches b exactly when b matches
\* a, both normalized), and "OSHA-30" against "OSHA 30" and "NFPA-70E"
\* against "NFPA 70E" match.
CertsMatchSymmetric ==
    pc = "certsMatch" =>
        /\ result = certsMatch(normalizeCert(args[2]), normalizeCert(args[1]))
        /\ {args[1], args[2]} = {Str_OSHA_Dash_30, Str_OSHA_30} => result
        /\ {args[1], args[2]} = {Str_NFPA_Dash_70E, Str_NFPA_70E} => result

\* the longer name given first: "nfpa 70e arc flash" matches "NFPA-70E"
CertsMatchWitness ==
    /\ pc = "certsMatch"
    /\ args = <<Str_NFPA_70E_ArcFlash, Str_NFPA_Dash_70E>>
    /\ result

\* the postal codes of the US states
USStateCodes == {
    <<"A","L">>, <<"A","K">>, <<"A","Z">>, <<"A","R">>, <<"C","A">>,
    <<"C","O">>, <<"C","T">>, <<"D","E">>, <<"F","L">>, <<"G","A">>,
    <<"H","I">>, <<"I","D">>, <<"I","L">>, <<"I","N">>, <<"I","A">>,
    <<"K","S">>, <<"K","Y">>, <<"L","A">>, <<"M","E">>, <<"M","D">>,
    <<"M","A">>, <<"M","I">>, <<"M","N">>, <<"M","S">>, <<"M","O">>,
    <<"M","T">>, <<"N","E">>, <<"N","V">>, <<"N","H">>, <<"N","J">>,
    <<"N","M">>, <<"N","Y">>, <<"N","C">>, <<"N","D">>, <<"O","H">>,
    <<"O","K">>, <<"O","R">>, <<"P","A">>, <<"R","I">>, <<"S","C">>,
    <<"S","D">>, <<"T","N">>, <<"T","X">>, <<"U","T">>, <<"V","T">>,
    <<"V","A">>, <<"W","A">>, <<"W","V">>, <<"W","I">>, <<"W","Y">> }

\* the US states a label names, by a two-letter word that is a postal code
\* or by a full state name
StatesNamed(label) ==
    ({ toUpperCase(SubSeq(label, i, i + 1)) : i \in StateCodeMatches(label) }
        \cap USStateCodes)
    \cup { StateNames[k][2] : k \in {n \in 1..Len(StateNames) :
                                        includes(toLowerCase(label), StateNames[n][1])} }

\* the proximity sub-score the labels alone give
LabelScore(candLabel, targetLabel) ==
    IF TruthyStr(candLabel) /\ TruthyStr(targetLabel)
    THEN LET a == trim(toLowerCase(candLabel[1]))
             b == trim(toLowerCase(targetLabel[1]))
         IN  IF a = b THEN Pts(25)
             ELSE IF includes(a, b) \/ includes(b, a) THEN 70
             ELSE IF StatesNamed(candLabel[1]) \cap StatesNamed(targetLabel[1]) # {}
                  THEN Pts(10)
             ELSE 30
    ELSE 30

\* C29: when a coordinate of the candidate or of the criteria is missing,
\* scoreProximity is 25 for labels equal up to case and surrounding spaces,
\* 17.5 when one label contains the other, 10 when both labels name the
\* same US state, and 7.5 otherwise, absent labels included
LabelFallback ==
    (/\ pc = "scoreProximity"
     /\ Null \in {args[1].latitude, args[1].longitude,
                  args[2].latitude, args[2].longitude}) =>
        result = LabelScore(args[1].location, args[2].location)

\* C30: in every result of scoreCandidate the proximity sub-score plus the
\* travel bonus is at most 25, and for every other location of the same
\* candidate with a higher proximity sub-score the sum is strictly higher
\* and the total score is not lower
TravelBonusOnlyCompensates ==
    pc = "scoreCandidate" =>
        /\ locals.proximityScore + locals.travelBonus <= Pts(25)
        /\ \A place \in CandidatePlaces :
            LET Compared(other) ==
                    other.proximityScore > locals.proximityScore =>
                        /\ other.proximityScore + other.travelBonus
                              > locals.proximityScore + locals.travelBonus
                        /\ MinOf(other.certScore + other.proximityScore
                                 + other.experienceScore + other.freshnessScore
                                 + other.travelBonus, Pts(100)) >= result.score
            IN  Compared(SubScores([args[1] EXCEPT !.location = place.location,
                                                   !.latitude = place.latitude,
                                                   !.longitude = place.longitude],
                                   args[2], now))

\* a willing candidate outside the radius, with the full bonus of 5 and
\* with locations that score higher on proximity
TravelBonusWitness ==
    /\ pc = "scoreCandidate"
    /\ args[1].willingToTravel
    /\ locals.proximityScore = 0
    /\ locals.travelBonus = Pts(5)
    /\ \E place \in CandidatePlaces :
        scoreProximity([args[1] EXCEPT !.location = place.location,
                                       !.latitude = place.latitude,
                                       !.longitude = place.longitude],
                       args[2]) = Pts(25)

\* ======== ats-mapper.ts properties ========
\* a draft was returned (no exception was thrown)
DraftReturned == pc = "generateApplicationDraft" /\ "fields" \in DOMAIN result

\* C16: for every profile with a non-empty email and every platform tag, the
\* draft for the platform-default field list contains the answer with
\* fieldId "email", the profile's email, source "template" and confidence
\* 1.0.
EmailAnswered ==
    (pc = "generateApplicationDraft" /\ args[3] = Null /\ args[1].email # <<>>) =>
        /\ DraftReturned
        /\ \E i \in 1..Len(result.fields) :
              result.fields[i] = FieldAnswer("email", args[1].email, "template", 100)

\* the required certifications no profile certification matches under the
\* rule of normalizeCert and certsMatch
MissingByFuzzyRule(profile, jobCerts) ==
    LET isMissing(req) ==
            ~\E i \in 1..Len(profile.certifications) :
                certsMatch(normalizeCert(profile.certifications[i]), normalizeCert(req))
    IN  filter(jobCerts, [i \in DOMAIN jobCerts |-> isMissing(jobCerts[i])])

\* C17: for a non-empty list of required certifications, the draft carries
\* the warning "Missing certifications: ..." naming exactly the required
\* certifications that no profile certification matches under the fuzzy
\* rule, and no such warning when every required certification is matched.
MissingCertsWarning ==
    (DraftReturned /\ JobCerts(args[2]) # <<>>) =>
        LET missing == MissingByFuzzyRule(args[1], JobCerts(args[2]))
            isMissingWarning(w) ==
                Len(w) >= Len(Str_MissingCertifications)
                /\ SubSeq(w, 1, Len(Str_MissingCertifications)) = Str_MissingCertifications
            emitted == filter(result.warnings, [i \in DOMAIN result.warnings |-> isMissingWarning(result.warnings[i])])
        IN  IF missing = <<>> THEN emitted = <<>>
            ELSE emitted = <<Str_MissingCertifications \o join(missing, <<",", " ">>)>>

\* every required certification is matched by computeMatchScore's test
HoldsAllRequired(profile, jobCertsRequired) ==
    Len(MatchedRequired(profile, jobCertsRequired)) = Len(jobCertsRequired)

EmptyProfile(profile) ==
    /\ profile.certifications = <<>>
    /\ profile.yearsExperience = 0
    /\ ~TruthyStr(profile.resumeText)

AnswersFollowFields ==
    DraftReturned =>
        \E S \in SUBSET (1..Len(locals)) :
            /\ Cardinality(S) = Len(result.fields)
            /\ \A i \in 1..Len(locals) : locals[i].required => i \in S
            /\ LET at == Ascending(S, 1, Len(locals))
               IN  \A j \in 1..Len(at) :
                     /\ result.fields[j].fieldId = locals[at[j]].fieldId
                     /\ (locals[at[j]].required /\ result.fields[j].value = <<>>) =>
                           \E k \in 1..Len(result.warnings) :
                               includes(result.warnings[k], Quoted(locals[at[j]].label))

\* a list of two fields: the optional one is left out, the required one has
\* an empty answer and a warning
AnswersWitness ==
    /\ DraftReturned
    /\ Len(locals) = 2
    /\ ~locals[1].required /\ locals[2].required
    /\ result.fields = <<FieldAnswer(locals[2].fieldId, <<>>, "template", 0)>>
    /\ result.warnings = <<NotFilledWarning(locals[2].label), LowMatchWarning>>


\* C21: in every draft, every field of the list that isScreeningQuestion
\* accepts has an answer with source "llm" and a non-empty value.
ScreeningQuestionsSynthesized ==
    DraftReturned =>
        \A i \in 1..Len(locals) :
            isScreeningQuestion(locals[i]) =>
                \E j \in 1..Len(result.fields) :
                    /\ result.fields[j].fieldId = locals[i].fieldId
                    /\ result.fields[j].source = "llm"
                    /\ result.fields[j].value # <<>>

\* the text generateScreeningAnswer composes for the field before any cut
UncutAnswer(field, profile) ==
    generateScreeningAnswer([field EXCEPT !.maxLength = Some(100000)], profile,
        Str_JobTitle, Str_JobDescription, Some(Str_JobRequirements)).value

\* text is uncut, or a prefix of uncut that ends at the end of a word,
\* followed or not by "..."
CutAtWordBoundary(text, uncut) ==
    \/ text = uncut
    \/ \E n \in 0..(Len(uncut) - 1) :
          /\ text \in {SubSeq(uncut, 1, n), SubSeq(uncut, 1, n) \o <<".", ".", ".">>}
          /\ IsSpace(uncut[n + 1])
          /\ (n = 0 \/ ~IsSpace(uncut[n]))

\* C22: for a field with a positive maxLength, the text generateScreeningAnswer
\* returns is at most maxLength long and is the composed text whole or cut at
\* a word boundary; the cover letter of a draft is at most 800 characters.
SynthesizedTextFits ==
    /\ (pc = "generateScreeningAnswer" /\ TruthyNum(args[1].maxLength)) =>
          /\ Len(result.value) <= args[1].maxLength[1]
          /\ CutAtWordBoundary(result.value, UncutAnswer(args[1], args[2]))
    /\ DraftReturned => Len(result.coverLetter) <= 800

\* the label names a work authorization, a citizenship or a sponsorship
IsAuthorizationField(field) ==
    \E word \in {<<"a","u","t","h","o","r","i","z">>, <<"c","i","t","i","z","e","n">>, <<"s","p","o","n","s","o","r","s","h","i","p">>} :
        includes(toLowerCase(field.label), word)

TemplateReturned == pc = "tryTemplateMatch"

\* C27: for every authorization-type field (work authorization,
\* citizenship, sponsorship), matched exactly or by containment, the
\* template answer is empty, and a draft's answer for such a field is empty
\* or comes with a manual-review warning that quotes the field's label
AuthorizationLeftBlank ==
    /\ (TemplateReturned /\ IsAuthorizationField(args[1]) /\ result # Null)
            => result[1].value = <<>>
    /\ DraftReturned =>
        \A i \in 1..Len(locals) :
            IsAuthorizationField(locals[i]) =>
                \A j \in 1..Len(result.fields) :
                    result.fields[j].fieldId = locals[i].fieldId =>
                        \/ result.fields[j].value = <<>>
                        \/ \E k \in 1..Len(result.warnings) :
                              includes(result.warnings[k], Quoted(locals[i].label))

\* the indices of the pattern keys equal to the normalized label
ExactKeys(normalized) ==
    {i \in 1..Len(STANDARD_FIELD_PATTERNS) :
        STANDARD_FIELD_PATTERNS[i].pattern = normalized}

\* the indices of the pattern keys the normalized label contains or is
\* contained in
ContainmentKeys(normalized) ==
    {i \in 1..Len(STANDARD_FIELD_PATTERNS) :
        \/ includes(normalized, STANDARD_FIELD_PATTERNS[i].pattern)
        \/ includes(STANDARD_FIELD_PATTERNS[i].pattern, normalized)}

\* C28: tryTemplateMatch resolves a field by the exact key, else by the
\* first key in containment, else by choice inference; the confidence is
\* 1.0 for an exact hit and 0.8 for a containment hit with a non-empty
\* value, 0.2 to 0.3 when the value is empty, and 0.9 for every choice
\* inference; and a draft takes a template answer as it is, without a
\* warning, exactly when its confidence is at least 0.7
TemplateConfidence ==
    /\ TemplateReturned =>
        LET exact == ExactKeys(normalizeFieldId(args[1].label))
            fuzzy == ContainmentKeys(normalizeFieldId(args[1].label))
            Hit(value, confidence) ==
                /\ result # Null
                /\ result[1].value = value
                /\ result[1].confidence
                      \in (IF value # <<>> THEN {confidence} ELSE {20, 30})
        IN  IF exact # {}
            THEN Hit(Mapper(STANDARD_FIELD_PATTERNS[Min(exact)].mapper, args[2]), 100)
            ELSE IF fuzzy # {}
            THEN Hit(Mapper(STANDARD_FIELD_PATTERNS[Min(fuzzy)].mapper, args[2]), 80)
            ELSE result # Null =>
                    /\ args[1].type = "select"
                    /\ result[1].confidence = 90
    /\ DraftReturned =>
        \A i \in 1..Len(locals) :
            LET Taken(t) ==
                    t # Null =>
                        (t[1].confidence >= 70 <=>
                            /\ \E j \in 1..Len(result.fields) : result.fields[j] = t[1]
                            /\ \A k \in 1..Len(result.warnings) :
                                  result.warnings[k] # LowConfidenceWarning(locals[i].label))
            IN  Taken(tryTemplateMatch(locals[i], args[1]))
\* ======== end of ats-mapper.ts properties ========

\* ======== route handlers ========
\* ------------------------------------------------------------------------
\* Route handlers (src/unnamed/part_003, src/src/app/api/applications)
\* ------------------------------------------------------------------------
\* NextResponse.json(body, { status })
Json(body, status) == [status |-> status, body |-> body]

\* the value of a destructured key of the request body, Null standing for
\* a key that is absent
OrDefault(x, default) == IF x = Null THEN default ELSE x[1]

\* s.replace(/pat/g, by) for a literal pattern
RECURSIVE replaceAll(_, _, _)
replaceAll(s, pat, by) ==
    IF Len(s) < Len(pat) THEN s
    ELSE IF SubSeq(s, 1, Len(pat)) = pat
         THEN by \o replaceAll(SubSeq(s, Len(pat) + 1, Len(s)), pat, by)
    ELSE <<Head(s)>> \o replaceAll(Tail(s), pat, by)

\* ------------------------------------------------------------------------
\* POST ping campaign
\* ------------------------------------------------------------------------
\* the keys of CITY_COORDS in insertion order, each with its coordinates
CITY_COORDS == <<
    << <<"h","o","u","s","t","o","n">>, GeoPoints.Houston >>,
    << <<"k","a","t","y">>, GeoPoints.Katy >>,
    << <<"a","t","l","a","n","t","a">>, GeoPoints.Atlanta >>,
    << <<"c","o","l","u","m","b","u","s">>, GeoPoints.Columbus >>,
    << <<"c","h","i","c","a","g","o">>, GeoPoints.Chicago >> >>

lookupCoords(location) ==
    LET Found(hits) ==
            IF hits = {} THEN [lat |-> Null, lng |-> Null]
            ELSE [lat |-> Some(CITY_COORDS[Min(hits)][2][1]),
                  lng |-> Some(CITY_COORDS[Min(hits)][2][2])]
        Lookup(lower) ==
            Found({k \in 1..Len(CITY_COORDS) : includes(lower, CITY_COORDS[k][1])})
    IN  IF ~TruthyStr(location) THEN [lat |-> Null, lng |-> Null]
        ELSE Lookup(toLowerCase(location[1]))

COST_PER_PING == 3

\* the criteria the handler builds from the request body
criteriaOf(body) ==
    LET Built(location, coords) ==
            [requiredCerts |-> OrDefault(body.requiredCerts, <<>>),
             location      |-> location,
             latitude      |-> coords.lat,
             longitude     |-> coords.lng,
             radiusMiles   |-> OrDefault(body.radiusMiles, 100),
             minExperience |-> OrDefault(body.minExperience, 0)]
        Located(location) == Built(location, lookupCoords(location))
    IN  Located(body.location)

\* profiles.map: one CandidateData per row of findMany
candidateOf(p) ==
    LET Built(profileCoords) ==
            [profileId |-> p.id, userId |-> p.userId, name |-> p.user.name,
             phone |-> p.user.phone, email |-> p.user.email,
             location |-> p.location,
             latitude |-> profileCoords.lat, longitude |-> profileCoords.lng,
             yearsExperience |-> p.yearsExperience,
             willingToTravel |-> p.willingToTravel, smsOptIn |-> p.smsOptIn,
             certifications |-> [i \in DOMAIN p.certifications |->
                                    p.certifications[i].name],
             lastActive |-> p.updatedAt]
    IN  Built(lookupCoords(p.location))

\* ranked.filter((s) => s.eligible), without the test
eligibleOf_all(ranked) == ranked

\* ranked.filter((s) => s.eligible)
eligibleOf(ranked) == filter(ranked, [i \in DOMAIN ranked |-> ranked[i].eligible])

\* the id of the n-th row of pingCampaign
CampaignId(n) == <<"c","m","0","p","i","n","g">> \o String(n) \o <<"k","3","x">>

\* the message of one notification
personalizedMsg(message, candidate, campaignId) ==
    replaceAll(replaceAll(message, <<"{","{","n","a","m","e","}","}">>, split(candidate.name, " ")[1]),
               <<"{","{","l","i","n","k","}","}">>, <<"d","c","j","o","b","s",".","c","o","/">> \o slice(campaignId, 0, 8))

\* the handler from its first statement to its response: the tables after
\* it and the response
POST_pingCampaign(session, body, store, clock) ==
    LET Created(eligible, id, message, dripSteps) ==
            [db |-> [store EXCEPT
                !.pingCampaign = Append(@,
                    [id |-> id,
                     employerProfileId |-> session[1].user.employerProfile[1].id,
                     name |-> body.campaignName[1],
                     message |-> message,
                     targetCerts |-> join(OrDefault(body.requiredCerts, <<>>), <<",">>),
                     targetLocation |-> body.location,
                     targetRadius |-> OrDefault(body.radiusMiles, 100),
                     status |-> "active",
                     totalPings |-> Len(eligible)]),
                !.pingNotification = @ \o
                    [i \in 1..Len(eligible) |->
                        [campaignId |-> id,
                         recipientPhone |-> IF TruthyStr(eligible[i].candidate.phone)
                                            THEN eligible[i].candidate.phone[1]
                                            ELSE <<>>,
                         recipientName |-> eligible[i].candidate.name,
                         message |-> personalizedMsg(message, eligible[i].candidate, id),
                         status |-> "queued"]]],
             response |-> Json(
                [campaignId |-> id,
                 recipients |-> Len(eligible),
                 costPerPing |-> COST_PER_PING,
                 dripSteps |-> dripSteps,
                 estimatedTotalCost |-> Len(eligible) * COST_PER_PING * (1 + dripSteps),
                 topCandidates |->
                    [i \in 1..MinOf(5, Len(eligible)) |->
                        [name |-> eligible[i].candidate.name,
                         score |-> eligible[i].score,
                         certifications |-> eligible[i].candidate.certifications,
                         location |-> eligible[i].candidate.location]]],
                200)]
    IN  IF session = Null \/ session[1].user.role # "employer"
        THEN [db |-> store,
              response |-> Json([error |-> "Employer access required"], 403)]
        ELSE IF session[1].user.employerProfile = Null
        THEN [db |-> store,
              response |-> Json([error |-> "Employer profile required"], 400)]
        ELSE IF ~TruthyStr(body.campaignName) \/ ~TruthyStr(body.message)
        THEN [db |-> store,
              response |-> Json([error |-> "Campaign name and message are required"], 400)]
        ELSE Created(eligibleOf(rankCandidates(
                        [i \in DOMAIN store.jobSeekerProfile |->
                            candidateOf(store.jobSeekerProfile[i])],
                        criteriaOf(body), clock)),
                     CampaignId(Len(store.pingCampaign) + 1),
                     body.message[1],
                     OrDefault(body.dripSteps, 0))

\* ------------------------------------------------------------------------
\* Inputs of the ping campaign handler
\* ------------------------------------------------------------------------
MaxCampaigns == 1

\* one row of jobSeekerProfile with its user and its certifications
ProfileRow(id, name, ph, loc, y, w, o, cs, d) ==
    [id |-> id, userId |-> id, location |-> loc, yearsExperience |-> y,
     willingToTravel |-> w, smsOptIn |-> o, updatedAt |-> Now0 - d * HoursPerDay,
     user |-> [name |-> name, email |-> "seeker@example.com", phone |-> ph],
     certifications |-> [i \in DOMAIN cs |-> [name |-> cs[i]]]]

\* the table: a qualified local, a qualified candidate far away, one
\* without consent, one with an empty and one with no phone number, and one
\* whose score stays under the eligibility floor
PingProfiles == <<
    ProfileRow("p-local", <<"A","n","a"," ","R","e","y","e","s">>, Some(Str_PhoneNumber), Some(Str_HoustonTX),
               5, FALSE, TRUE, <<Str_OSHA_30, Str_NFPA_70E>>, 0),
    ProfileRow("p-far", <<"B","e","n"," ","C","o","l","e">>, Some(Str_PhoneNumber), Some(<<"C","o","l","u","m","b","u","s",","," ","O","H">>),
               5, TRUE, TRUE, <<Str_OSHA_Dash_30>>, 10),
    ProfileRow("p-no-optin", <<"C","y"," ","D","u","n","n">>, Some(Str_PhoneNumber), Some(Str_KatyTX),
               5, TRUE, FALSE, <<Str_OSHA_30, Str_NFPA_70E>>, 0),
    ProfileRow("p-empty-phone", <<"D","i"," ","E","v","a","n","s">>, Some(<<>>), Some(Str_HoustonTX),
               5, TRUE, TRUE, <<Str_OSHA_30, Str_NFPA_70E>>, 0),
    ProfileRow("p-no-phone", <<"E","d"," ","F","o","x">>, Null, Some(<<"A","t","l","a","n","t","a",","," ","G","A">>),
               5, TRUE, TRUE, <<Str_OSHA_30, Str_NFPA_70E>>, 0),
    ProfileRow("p-weak", <<"F","l","o"," ","G","r","a","y">>, Some(Str_PhoneNumber), Some(Str_DallasTX),
               0, FALSE, TRUE, <<>>, 200) >>

PingStore == [jobSeekerProfile |-> PingProfiles, pingCampaign |-> <<>>,
              pingNotification |-> <<>>]

\* getSession(): no session, a job seeker, an employer without and with a
\* profile
PingSessions == {
    Null,
    Some([user |-> [id |-> "u-seeker", role |-> "seeker", employerProfile |-> Null]]),
    Some([user |-> [id |-> "u-employer", role |-> "employer", employerProfile |-> Null]]),
    Some([user |-> [id |-> "u-employer", role |-> "employer",
                    employerProfile |-> Some([id |-> "emp-1"])]]) }

\* the request bodies, Null for a key the body does not have
PingBodies ==
    [campaignName : {Null, Some(<<"H","o","u","s","t","o","n"," ","b","u","i","l","d">>)},
     message : {Some(<<>>), Some(<<"H","i"," ","{","{","n","a","m","e","}","}",":"," ","{","{","l","i",
          "n","k","}","}">>)},
     requiredCerts : {Null, Some(<<Str_OSHA_30, Str_NFPA_70E>>)},
     location : {Null, Some(Str_HoustonTX), Some(<<"A","t","l","a","n","t","a",","," ","G","A">>)},
     radiusMiles : {Null, Some(500)},
     minExperience : {Null, Some(MaxMinExperience)},
     dripSteps : {Null, Some(2)}]

InitPing ==
    /\ now = Now0
    /\ pc = "idle"
    /\ args = <<>>
    /\ locals = <<>>
    /\ result = <<>>
    /\ db = PingStore

\* one request handled from getSession to the response
CreatePingCampaign ==
    /\ pc = "idle"
    /\ Len(db.pingCampaign) < MaxCampaigns
    /\ \E session \in PingSessions, body \in PingBodies :
        LET Done(out) == db' = out.db /\ result' = out.response
        IN  /\ args' = <<session, body>>
            /\ Done(POST_pingCampaign(session, body, db, now))
    /\ pc' = "POST ping campaign"
    /\ UNCHANGED <<now, locals>>

\* the response is sent; the tables stay
Respond ==
    /\ pc = "POST ping campaign"
    /\ pc' = "idle"
    /\ args' = <<>>
    /\ result' = <<>>
    /\ UNCHANGED <<now, locals, db>>

NextPing ==
    \/ CreatePingCampaign
    \/ Respond

SpecPing == InitPing /\ [][NextPing]_vars

\* the notification rows of the campaign created last
LastCampaign == db.pingCampaign[Len(db.pingCampaign)]
LastNotified ==
    {i \in DOMAIN db.pingNotification :
        db.pingNotification[i].campaignId = LastCampaign.id}

CampaignCreated == pc = "POST ping campaign" /\ result.status = 200

\* C23: when a ping campaign is created, every notification record of the
\* campaign carries the name and the phone of a candidate that
\* scoreCandidate marks eligible for the campaign's criteria (consent
\* given, a non-empty phone, score at least 25), no candidate without
\* consent or without a phone has a notification record, and the number of
\* the campaign's notification records equals its totalPings and the
\* recipients count of the response
PingRecipientsEligible ==
    CampaignCreated =>
        /\ \A i \in LastNotified :
            \E k \in DOMAIN db.jobSeekerProfile :
                LET p == db.jobSeekerProfile[k]
                    Marked(s) == /\ s.eligible
                                 /\ s.score >= Pts(25)
                IN  /\ db.pingNotification[i].recipientName = p.user.name
                    /\ db.pingNotification[i].status = "queued"
                    /\ p.smsOptIn
                    /\ p.user.phone = Some(db.pingNotification[i].recipientPhone)
                    /\ db.pingNotification[i].recipientPhone # <<>>
                    /\ Marked(scoreCandidate(candidateOf(p), criteriaOf(args[2]), now))
        /\ \A k \in DOMAIN db.jobSeekerProfile :
            LET p == db.jobSeekerProfile[k]
            IN  ~p.smsOptIn \/ ~TruthyStr(p.user.phone) =>
                    \A i \in DOMAIN db.pingNotification :
                        db.pingNotification[i].recipientName # p.user.name
        /\ Cardinality(LastNotified) = LastCampaign.totalPings
        /\ Cardinality(LastNotified) = result.body.recipients

\* a campaign that reaches some candidates with consent and a phone and
\* leaves out another one of them whose score is under the floor
PingWitness ==
    /\ CampaignCreated
    /\ result.body.recipients = 2
    /\ \E k \in DOMAIN db.jobSeekerProfile :
        LET p == db.jobSeekerProfile[k]
        IN  /\ p.smsOptIn
            /\ TruthyStr(p.user.phone)
            /\ \A i \in LastNotified :
                db.pingNotification[i].recipientName # p.user.name

\* ------------------------------------------------------------------------
\* POST application review: requests in flight, one step per database call
\* ------------------------------------------------------------------------
MaxRequests == 2
Requests == 1..MaxRequests

\* JSON.stringify
JSONstringify(v) == [json |-> v]

ReviewOwner == "u-owner"
ReviewAppId == "app-1"

\* the pending application that POST /api/applications created for its
\* owner, and the owner's profile
ReviewStore(dailyApplies) ==
    [application |-> [id \in {ReviewAppId} |->
        Some([id |-> id, userId |-> ReviewOwner, jobId |-> "job-1",
              status |-> "pending", coverLetter |-> Some(<<"D","r","a","f","t"," ","l","e","t","t","e","r">>),
              aiDraft |-> Some(JSONstringify("draft")), submittedAt |-> Null,
              job |-> [title |-> "Electrician", company |-> "Acme"]])],
     jobSeekerProfile |-> [id |-> "p-owner", userId |-> ReviewOwner,
                           dailyApplies |-> dailyApplies]]

\* session.user of getSession(): the owner with the profile as it is read,
\* or another job seeker
ReviewUser(userId, store) ==
    [id |-> userId,
     jobSeekerProfile |-> IF userId = ReviewOwner THEN Some(store.jobSeekerProfile)
                          ELSE Null]

\* the request bodies: each action without edits and with an edited cover
\* letter and edited fields
ReviewBodies ==
    { [action |-> a, editedCoverLetter |-> e[1], editedFields |-> e[2]] :
        a \in {"approve", "edit", "reject", "withdraw"},
        e \in { <<Null, Null>>, <<Some(<<"E","d","i","t","e","d"," ","l","e","t","t","e","r">>), Some("edited")>> } }

InitReview ==
    /\ now = Now0
    /\ pc = [r \in Requests |-> "idle"]
    /\ args = [r \in Requests |-> <<>>]
    /\ locals = [r \in Requests |-> <<>>]
    /\ result = [r \in Requests |-> <<>>]
    /\ \E n \in 0..1 : db = ReviewStore(n)

\* the request arrives; getSession() reads the session and the profile
Review_getSession(r) ==
    /\ pc[r] = "idle"
    /\ \E userId \in {"", ReviewOwner, "u-other"} :
        IF userId = ""
        THEN /\ args' = [args EXCEPT ![r] = [session |-> Null, id |-> ReviewAppId]]
             /\ result' = [result EXCEPT ![r] = Json([error |-> "Unauthorized"], 401)]
             /\ pc' = [pc EXCEPT ![r] = "done"]
        ELSE /\ args' = [args EXCEPT ![r] =
                    [session |-> Some([user |-> ReviewUser(userId, db)]),
                     id |-> ReviewAppId]]
             /\ result' = result
             /\ pc' = [pc EXCEPT ![r] = "findUnique"]
    /\ UNCHANGED <<now, locals, db>>

\* prisma.application.findUnique, the ownership and status tests, and
\* req.json()
Review_findUnique(r) ==
    /\ pc[r] = "findUnique"
    /\ LET Read(application) ==
            IF application = Null
               \/ application[1].userId # args[r].session[1].user.id
            THEN /\ result' = [result EXCEPT ![r] =
                        Json([error |-> "Application not found"], 404)]
                 /\ pc' = [pc EXCEPT ![r] = "done"]
                 /\ UNCHANGED <<args, locals>>
            ELSE IF application[1].status # "pending"
            THEN /\ result' = [result EXCEPT ![r] =
                        Json([error |-> "Application already processed"], 400)]
                 /\ pc' = [pc EXCEPT ![r] = "done"]
                 /\ UNCHANGED <<args, locals>>
            ELSE \E body \in ReviewBodies :
                 /\ args' = [args EXCEPT ![r] =
                        [session |-> @.session, id |-> @.id, body |-> body]]
                 /\ locals' = [locals EXCEPT ![r] = [application |-> application[1]]]
                 /\ IF body.action \in {"approve", "edit"}
                    THEN pc' = [pc EXCEPT ![r] = "update"] /\ result' = result
                    ELSE IF body.action = "reject"
                    THEN pc' = [pc EXCEPT ![r] = "delete"] /\ result' = result
                    ELSE /\ pc' = [pc EXCEPT ![r] = "done"]
                         /\ result' = [result EXCEPT ![r] =
                                Json([error |-> "Invalid action. Use: approve, edit, or reject"], 400)]
       IN  Read(db.application[args[r].id])
    /\ UNCHANGED <<now, db>>

\* the data of prisma.application.update for approve and for edit
ReviewData(row, action, body, application, clock) ==
    LET Edited == [row EXCEPT
            !.coverLetter = IF TruthyStr(body.editedCoverLetter)
                            THEN body.editedCoverLetter
                            ELSE application.coverLetter,
            !.aiDraft = IF body.editedFields # Null
                        THEN Some(JSONstringify(body.editedFields[1]))
                        ELSE application.aiDraft]
    IN  IF action = "approve"
        THEN [Edited EXCEPT !.status = "submitted", !.submittedAt = Some(clock)]
        ELSE Edited

\* prisma.application.update({ where: { id } }): the row is written
\* whatever its status is now; a missing row makes the call throw
Review_update(r) ==
    /\ pc[r] = "update"
    /\ LET id == args[r].id
           body == args[r].body
       IN  IF db.application[id] = Null
           THEN /\ result' = [result EXCEPT ![r] =
                        Json([error |-> "Record to update not found"], 500)]
                /\ db' = db
           ELSE /\ db' = [db EXCEPT !.application[id] =
                        Some(ReviewData(@[1], body.action, body,
                                        locals[r].application, now))]
                /\ result' = [result EXCEPT ![r] =
                        IF body.action = "approve"
                        THEN Json([status |-> "submitted",
                                   job |-> locals[r].application.job,
                                   submittedAt |-> Some(now)], 200)
                        ELSE Json([status |-> "edited",
                                   message |-> "Draft saved. Review and approve when ready."], 200)]
    /\ pc' = [pc EXCEPT ![r] = "done"]
    /\ UNCHANGED <<now, args, locals>>

\* prisma.application.delete({ where: { id } }), then the test of the
\* profile that came with the session
Review_delete(r) ==
    /\ pc[r] = "delete"
    /\ LET id == args[r].id
           profile == args[r].session[1].user.jobSeekerProfile
       IN  IF db.application[id] = Null
           THEN /\ result' = [result EXCEPT ![r] =
                        Json([error |-> "Record to delete does not exist"], 500)]
                /\ pc' = [pc EXCEPT ![r] = "done"]
                /\ db' = db
           ELSE /\ db' = [db EXCEPT !.application[id] = Null]
                /\ IF profile # Null /\ profile[1].dailyApplies > 0
                   THEN pc' = [pc EXCEPT ![r] = "refund"] /\ result' = result
                   ELSE /\ pc' = [pc EXCEPT ![r] = "done"]
                        /\ result' = [result EXCEPT ![r] =
                                Json([status |-> "rejected"], 200)]
    /\ UNCHANGED <<now, args, locals>>

\* prisma.jobSeekerProfile.update({ dailyApplies: { decrement: 1 } })
Review_refund(r) ==
    /\ pc[r] = "refund"
    /\ db' = [db EXCEPT !.jobSeekerProfile.dailyApplies = @ - 1]
    /\ result' = [result EXCEPT ![r] = Json([status |-> "rejected"], 200)]
    /\ pc' = [pc EXCEPT ![r] = "done"]
    /\ UNCHANGED <<now, args, locals>>

\* the response is sent
Review_respond(r) ==
    /\ pc[r] = "done"
    /\ pc' = [pc EXCEPT ![r] = "idle"]
    /\ args' = [args EXCEPT ![r] = <<>>]
    /\ locals' = [locals EXCEPT ![r] = <<>>]
    /\ result' = [result EXCEPT ![r] = <<>>]
    /\ UNCHANGED <<now, db>>

NextReview ==
    \E r \in Requests :
        \/ Review_getSession(r)
        \/ Review_findUnique(r)
        \/ Review_update(r)
        \/ Review_delete(r)
        \/ Review_refund(r)
        \/ Review_respond(r)

SpecReview == InitReview /\ [][NextReview]_vars

StatusOf(store, id) ==
    IF store.application[id] = Null THEN "none"
    ELSE store.application[id][1].status

\* C24: under every interleaving of review requests on one application,
\* its status becomes "submitted" only in the update of an approve request
\* of its owner, made while the row is pending, and once the row is
\* submitted no step changes or deletes it or refunds an apply
SubmittedIsFinal ==
    [][ /\ (StatusOf(db, ReviewAppId) # "submitted"
            /\ StatusOf(db', ReviewAppId) = "submitted")
           => /\ StatusOf(db, ReviewAppId) = "pending"
              /\ \E r \in Requests :
                    /\ pc[r] = "update" /\ pc'[r] = "done"
                    /\ args[r].body.action = "approve"
                    /\ args[r].session[1].user.id = ReviewOwner
        /\ StatusOf(db, ReviewAppId) = "submitted"
           => /\ db'.application = db.application
              /\ db'.jobSeekerProfile.dailyApplies
                    = db.jobSeekerProfile.dailyApplies ]_vars

\* ------------------------------------------------------------------------
\* POST /api/applications: requests in flight, one step per database write
\* ------------------------------------------------------------------------
TIER_LIMITS == [free    |-> [dailyApplies |-> 5, label |-> "Free"],
                premium |-> [dailyApplies |-> 20, label |-> "Premium - $19/mo"],
                elite   |-> [dailyApplies |-> 50, label |-> "Elite - $39/mo"]]

\* TIER_LIMITS[tier]?.dailyApplies ?? 5
LimitOf(tier) ==
    IF tier \in DOMAIN TIER_LIMITS THEN TIER_LIMITS[tier].dailyApplies ELSE 5

\* new Date() with setHours(0, 0, 0, 0)
Today(clock) == (clock \div HoursPerDay) * HoursPerDay

MaxDays == 1

ApplyUser == "u-seeker"

\* the bodies' jobIds: absent, empty, and lists of active jobs
JobIdLists == {
    Null,
    Some(<<>>),
    Some(<<"job-1", "job-2">>),
    Some(<<"job-3", "job-4">>),
    Some(<<"job-5", "job-1", "job-2">>) }

\* the profile after earlier requests of the day or of the day before, and
\* the application rows of the jobs of JobIdLists (none yet)
ApplyStore(tier, dailyApplies, lastApplyReset) ==
    [jobSeekerProfile |-> [id |-> "p-seeker", userId |-> ApplyUser, tier |-> tier,
                           dailyApplies |-> dailyApplies,
                           lastApplyReset |-> lastApplyReset],
     application |-> {}]

InitApply ==
    /\ now = Now0
    /\ pc = [r \in Requests |-> "idle"]
    /\ args = [r \in Requests |-> <<>>]
    /\ locals = [r \in Requests |-> <<>>]
    /\ result = [r \in Requests |-> <<>>]
    /\ \E tier \in {"free", "premium", "elite"}, used \in {0, 2},
          lastApplyReset \in {Now0 - 15, Now0} :
        db = ApplyStore(tier, LimitOf(tier) - used, lastApplyReset)

\* midnight passes
NextDay ==
    /\ now < Now0 + MaxDays * HoursPerDay
    /\ now' = now + HoursPerDay
    /\ UNCHANGED <<pc, args, locals, result, db>>

\* remaining, toApply and the 429 answer (lines 37-45), profile being the
\* one that came with the session
LimitCheck(r, limit, today, profile, jobIds) ==
    LET Sliced(remaining, toApply) ==
            IF Len(toApply) = 0
            THEN /\ result' = [result EXCEPT ![r] =
                        Json([error |-> "Daily limit reached", limit |-> limit,
                              tier |-> profile.tier], 429)]
                 /\ pc' = [pc EXCEPT ![r] = "done"]
                 /\ locals' = [locals EXCEPT ![r] =
                        [limit |-> limit, today |-> today, remaining |-> remaining,
                         jobs |-> <<>>, results |-> <<>>]]
            ELSE /\ result' = result
                 /\ pc' = [pc EXCEPT ![r] = "create"]
                 /\ locals' = [locals EXCEPT ![r] =
                        [limit |-> limit, today |-> today, remaining |-> remaining,
                         jobs |-> toApply, results |-> <<>>]]
        Remaining(remaining) == Sliced(remaining, sliceTo(jobIds, remaining))
    IN  Remaining(limit - profile.dailyApplies)

\* the request arrives: getSession(), req.json(), the tests of the body and
\* of the profile, the limit and the test of lastApplyReset
Apply_getSession(r) ==
    /\ pc[r] = "idle"
    /\ \E user \in {"", "u-employer", ApplyUser}, jobIds \in JobIdLists :
        LET profile == IF user = ApplyUser THEN Some(db.jobSeekerProfile) ELSE Null
            Fail(error, status) ==
                /\ result' = [result EXCEPT ![r] = Json([error |-> error], status)]
                /\ pc' = [pc EXCEPT ![r] = "done"]
                /\ locals' = locals
        IN  /\ args' = [args EXCEPT ![r] =
                    [session |-> IF user = "" THEN Null
                                 ELSE Some([user |-> [id |-> user,
                                                      jobSeekerProfile |-> profile]]),
                     jobIds |-> jobIds]]
            /\ IF user = "" THEN Fail("Unauthorized", 401)
               ELSE IF jobIds = Null \/ Len(jobIds[1]) = 0
               THEN Fail("No jobs selected", 400)
               ELSE IF profile = Null THEN Fail("Job seeker profile required", 400)
               ELSE IF profile[1].lastApplyReset < Today(now)
               THEN /\ pc' = [pc EXCEPT ![r] = "reset"]
                    /\ locals' = [locals EXCEPT ![r] =
                            [limit |-> LimitOf(profile[1].tier), today |-> Today(now)]]
                    /\ result' = result
               ELSE LimitCheck(r, LimitOf(profile[1].tier), Today(now), profile[1], jobIds[1])
    /\ UNCHANGED <<now, db>>

\* prisma.jobSeekerProfile.update({ dailyApplies: 0, lastApplyReset: today }),
\* then the limit check on the profile that came with the session
Apply_reset(r) ==
    /\ pc[r] = "reset"
    /\ db' = [db EXCEPT !.jobSeekerProfile.dailyApplies = 0,
                        !.jobSeekerProfile.lastApplyReset = locals[r].today]
    /\ LimitCheck(r, locals[r].limit, locals[r].today,
                  args[r].session[1].user.jobSeekerProfile[1], args[r].jobIds[1])
    /\ UNCHANGED <<now, args>>

\* one iteration of the loop: prisma.application.create, which throws on
\* the unique index (userId, jobId)
Apply_create(r) ==
    /\ pc[r] = "create"
    /\ LET job == locals[r].jobs[Len(locals[r].results) + 1]
           row == [userId |-> ApplyUser, jobId |-> job]
           Pushed(results) ==
                /\ locals' = [locals EXCEPT ![r].results = results]
                /\ pc' = [pc EXCEPT ![r] =
                        IF Len(results) = Len(locals[r].jobs) THEN "increment"
                        ELSE "create"]
       IN  IF row \in db.application
           THEN /\ db' = db
                /\ Pushed(Append(locals[r].results, [jobId |-> job, status |-> "duplicate"]))
           ELSE /\ db' = [db EXCEPT !.application = @ \cup {row}]
                /\ Pushed(Append(locals[r].results, [jobId |-> job, status |-> "created"]))
    /\ UNCHANGED <<now, args, result>>

\* results.filter((r) => r.status === status).length
CountStatus(results, status) ==
    Cardinality({i \in DOMAIN results : results[i].status = status})

\* prisma.jobSeekerProfile.update({ dailyApplies: { increment: created } })
\* and the response
Apply_increment(r) ==
    /\ pc[r] = "increment"
    /\ LET Counted(created) ==
            /\ db' = [db EXCEPT !.jobSeekerProfile.dailyApplies = @ + created]
            /\ result' = [result EXCEPT ![r] =
                    Json([applied |-> created,
                          duplicates |-> CountStatus(locals[r].results, "duplicate"),
                          remaining |-> locals[r].remaining - created], 200)]
       IN  Counted(CountStatus(locals[r].results, "created"))
    /\ pc' = [pc EXCEPT ![r] = "done"]
    /\ UNCHANGED <<now, args, locals>>

\* the response is sent
Apply_respond(r) ==
    /\ pc[r] = "done"
    /\ pc' = [pc EXCEPT ![r] = "idle"]
    /\ args' = [args EXCEPT ![r] = <<>>]
    /\ locals' = [locals EXCEPT ![r] = <<>>]
    /\ result' = [result EXCEPT ![r] = <<>>]
    /\ UNCHANGED <<now, db>>

NextApply ==
    \/ NextDay
    \/ \E r \in Requests :
        \/ Apply_getSession(r)
        \/ Apply_reset(r)
        \/ Apply_create(r)
        \/ Apply_increment(r)
        \/ Apply_respond(r)

SpecApply == InitApply /\ [][NextApply]_vars

\* the requests that passed the tests of the session and of the body and
\* have been answered
Answered(r) ==
    /\ pc[r] = "done"
    /\ result[r].status \in {200, 429}

\* the profile as request r found it
ProfileSeen(r) == args[r].session[1].user.jobSeekerProfile[1]

\* C25: under every interleaving of a user's POST /api/applications
\* requests the stored dailyApplies never exceeds the tier's daily limit, a
\* request creates at most limit - dailyApplies applications, and a request
\* that finds dailyApplies at or above the limit creates none and is
\* answered with 429
DailyLimitRespected ==
    /\ db.jobSeekerProfile.dailyApplies <= LimitOf(db.jobSeekerProfile.tier)
    /\ \A r \in Requests :
        Answered(r) =>
            /\ CountStatus(locals[r].results, "created")
                    <= MaxOf(locals[r].limit - ProfileSeen(r).dailyApplies, 0)
            /\ ProfileSeen(r).dailyApplies >= locals[r].limit
                    => result[r].status = 429

\* C26: a request that finds lastApplyReset before today's midnight is
\* allowed up to the full tier limit whatever the counter was the day
\* before, and when no other request has created an application since,
\* dailyApplies equals the number of applications it created
FirstRequestOfDayGetsFullLimit ==
    \A r \in Requests :
        Answered(r) /\ ProfileSeen(r).lastApplyReset < locals[r].today =>
            /\ result[r].status = 200
            /\ Len(locals[r].results) = MinOf(Len(args[r].jobIds[1]), locals[r].limit)
            /\ (/\ \A q \in Requests \ {r} : pc[q] = "idle"
                /\ Cardinality(db.application) = result[r].body.applied)
               => db.jobSeekerProfile.dailyApplies = result[r].body.applied
\* ======== end of route handlers ========

====
